---- MODULE Spec2Model ----
(***************************************************************************)
(* Cohort builder of vantage_rwe: the criteria-to-SQL compiler             *)
(* (CohortBuilder._build_*_sql), the cohort assembler                      *)
(* (CohortBuilder._build_cohort_sql) and build_cohort, together with the   *)
(* warehouse that evaluates the statements they produce.                   *)
(*                                                                         *)
(* A SQL text is modelled by its syntax tree: a statement is a list of     *)
(* CTEs (name, body) and a final chain of set operations; a criterion      *)
(* fragment records the table, the columns, the rendered literals and the  *)
(* optional GROUP BY/HAVING wrapper, in the order the code writes them.    *)
(* A query result is a sequence of person_ids (a bag: duplicates count).   *)
(* A caller's string is a sequence of characters, and a quoted literal is   *)
(* the sequence of characters the code writes between and including its    *)
(* quotes, which the warehouse reads back with the SQL lexer.              *)
(***************************************************************************)
EXTENDS Integers, Sequences, FiniteSets, TLC

VARIABLES
    db,                 \* the warehouse tables (OMOP CDM)
    cohort_definition,  \* the CohortDefinition handed to build_cohort
    pc,                 \* position of build_cohort
    sql,                \* the statement _build_cohort_sql returned
    sent,               \* statements the warehouse received, in order
    person_ids,         \* build_cohort's person_ids list
    result,             \* the CohortResult returned
    save,               \* save_cohort_definition: the state of each caller's call
    call,               \* execute_query/execute_scalar: each caller's position
    connections,        \* every connection sql.connect has returned, in order
    exception,          \* the message of the exception build_cohort raised
    response,           \* the answer of each route of the API
    settings,           \* app.config.settings
    process,            \* os.environ and ssl._create_default_https_context
    at_start,           \* the value of process when the process started
    cors                \* the Origin of a request and the CORS decision on it

vars == <<db, cohort_definition, pc, sql, sent, person_ids, result,
          save, call, connections, exception, response, settings, process,
          at_start, cors>>

-----------------------------------------------------------------------------
(* Optional values: Python's None and a present value.                      *)
None == <<>>
Some(v) == <<v>>
IsNone(x) == x = <<>>
Val(x) == x[1]

Range(s) == {s[i] : i \in DOMAIN s}

Min(S) == CHOOSE x \in S : \A y \in S : x <= y

Max(S) == CHOOSE x \in S : \A y \in S : x >= y

(* The elements of a set of integers between lo and hi in ascending order,  *)
(* by halving the interval.                                                 *)
RECURSIVE SortedBetween(_, _, _)
SortedBetween(S, lo, hi) ==
    IF S = {} THEN <<>>
    ELSE IF lo = hi THEN <<lo>>
    ELSE LET mid == (lo + hi) \div 2
         IN  SortedBetween({x \in S : x <= mid}, lo, mid)
             \o SortedBetween({x \in S : x > mid}, mid + 1, hi)

(* A set of integers in ascending order.                                    *)
SetToSeq(S) == IF S = {} THEN <<>> ELSE SortedBetween(S, Min(S), Max(S))

MaxOrdered == 5       \* results up to this many rows come back in every order

(* The orders in which the warehouse may return the rows of a result (a     *)
(* bag given as a sequence): no statement of the program has an ORDER BY    *)
(* on person_id.  Every order of a short result; of a longer one the order  *)
(* given, its reverse, and the order given with its first row moved to the  *)
(* end.                                                                     *)
Orderings(rows) ==
    LET n == Len(rows)
        Bij == {f \in [1..n -> 1..n] : \A i, j \in 1..n : f[i] = f[j] => i = j}
    IN  IF n <= MaxOrdered
        THEN {[i \in 1..n |-> rows[f[i]]] : f \in Bij}
        ELSE {rows,
              [i \in 1..n |-> rows[n + 1 - i]],
              [i \in 1..n |-> rows[(i % n) + 1]]}

Prefix(s, n) == SubSeq(s, 1, IF Len(s) < n THEN Len(s) ELSE n)

(* Python truthiness of an optional string: present and not empty.          *)
Truthy(x) == ~IsNone(x) /\ Val(x) # <<>>

Quote == "'"

(* f"'{text}'": the text between two quote characters, as it is.            *)
Quoted(text) == <<Quote>> \o text \o <<Quote>>

(* text.replace("'", "''")                                                  *)
RECURSIVE Escape(_)
Escape(text) ==
    IF text = <<>> THEN <<>>
    ELSE (IF Head(text) = Quote THEN <<Quote, Quote>> ELSE <<Head(text)>>)
         \o Escape(Tail(text))

-----------------------------------------------------------------------------
(* app/models/cohort.py                                                     *)
CriteriaType ==
    {"condition", "drug", "procedure", "visit", "observation", "age", "gender"}

OperatorType ==
    {"equals", "not_equals", "greater_than", "less_than", "between", "in", "not_in"}

EventTypes == {"condition", "drug", "procedure", "visit", "observation"}
ConceptTypes == EventTypes \cup {"gender"}

(* CriteriaDefinition with its defaults.                                    *)
CriteriaDefinition(type) ==
    [criteria_type   |-> type,
     operator        |-> Some("equals"),
     concept_ids     |-> None,
     value           |-> None,
     value_min       |-> None,
     value_max       |-> None,
     start_date      |-> None,
     end_date        |-> None,
     min_occurrences |-> 1,
     is_exclusion    |-> FALSE]

CohortDefinition(incl, excl) ==
    [inclusion_criteria |-> incl, exclusion_criteria |-> excl]

-----------------------------------------------------------------------------
(* The criteria compiler: one fragment per criterion.                       *)

(* ",".join(map(str, criteria.concept_ids or []))                           *)
ConceptIdsStr(criteria) ==
    IF IsNone(criteria.concept_ids) THEN <<>> ELSE Val(criteria.concept_ids)

(* `if criteria.start_date:` - a date string that is present and not empty  *)
(* is written between quotes, as it is, after the anchor date column.       *)
DatePreds(criteria, date_col) ==
    (IF Truthy(criteria.start_date)
     THEN <<[col |-> date_col, op |-> ">=", quoted |-> TRUE,
             lit |-> Quoted(Val(criteria.start_date))]>>
     ELSE <<>>)
    \o
    (IF Truthy(criteria.end_date)
     THEN <<[col |-> date_col, op |-> "<=", quoted |-> TRUE,
             lit |-> Quoted(Val(criteria.end_date))]>>
     ELSE <<>>)

(* `if criteria.value_min is not None` / value_max, observation only: the   *)
(* number is written without quotes.                                        *)
ValuePreds(criteria) ==
    (IF IsNone(criteria.value_min) THEN <<>>
     ELSE <<[col |-> "value_as_number", op |-> ">=", quoted |-> FALSE,
             lit |-> Val(criteria.value_min)]>>)
    \o
    (IF IsNone(criteria.value_max) THEN <<>>
     ELSE <<[col |-> "value_as_number", op |-> "<=", quoted |-> FALSE,
             lit |-> Val(criteria.value_max)]>>)

(* Mutant: the threshold compared with > instead of >=.                     *)
HavingWrapper_Strict(criteria) ==
    IF criteria.min_occurrences > 1 THEN criteria.min_occurrences + 1 ELSE 0

(* `if criteria.min_occurrences > 1:` wrap in GROUP BY person_id            *)
(* HAVING COUNT >= min_occurrences; having = 0 stands for no wrapper.       *)
HavingWrapper(criteria) ==
    IF criteria.min_occurrences > 1 THEN criteria.min_occurrences ELSE 0

(* Mutant: the GROUP BY wrapper built before the date and value filters     *)
(* are appended, which then never reach the wrapped query.                  *)
EventSql_WrapFirst(criteria, table, concept_col, preds) ==
    [kind        |-> "event",
     table       |-> table,
     concept_col |-> concept_col,
     in_list     |-> ConceptIdsStr(criteria),
     preds       |-> IF criteria.min_occurrences > 1 THEN <<>> ELSE preds,
     having      |-> HavingWrapper(criteria)]

EventSql(criteria, table, concept_col, preds) ==
    [kind        |-> "event",
     table       |-> table,
     concept_col |-> concept_col,
     in_list     |-> ConceptIdsStr(criteria),
     preds       |-> preds,
     having      |-> HavingWrapper(criteria)]

_build_condition_sql(criteria) ==
    EventSql(criteria, "condition_occurrence", "condition_concept_id",
             DatePreds(criteria, "condition_start_date"))

_build_drug_sql(criteria) ==
    EventSql(criteria, "drug_exposure", "drug_concept_id",
             DatePreds(criteria, "drug_exposure_start_date"))

_build_procedure_sql(criteria) ==
    EventSql(criteria, "procedure_occurrence", "procedure_concept_id",
             DatePreds(criteria, "procedure_date"))

_build_visit_sql(criteria) ==
    EventSql(criteria, "visit_occurrence", "visit_concept_id",
             DatePreds(criteria, "visit_start_date"))

_build_observation_sql(criteria) ==
    EventSql(criteria, "observation", "observation_concept_id",
             DatePreds(criteria, "observation_date") \o ValuePreds(criteria))

(* The comparison appended after FLOOR(DATEDIFF(...) / 365.25); args are    *)
(* the interpolated values, None being rendered as the text None.  cmp =    *)
(* "" is the fragment no branch of the if/elif chain completed.             *)
_build_age_sql(criteria) ==
    LET op == criteria.operator
        cmp == IF op = Some("equals") THEN "="
               ELSE IF op = Some("greater_than") THEN ">"
               ELSE IF op = Some("less_than") THEN "<"
               ELSE IF op = Some("between") THEN "BETWEEN"
               ELSE ""
        args == IF cmp \in {"=", ">", "<"} THEN <<criteria.value>>
                ELSE IF cmp = "BETWEEN" THEN <<criteria.value_min, criteria.value_max>>
                ELSE <<>>
    IN  [kind |-> "age", table |-> "person", cmp |-> cmp, args |-> args]

_build_gender_sql(criteria) ==
    [kind |-> "gender", table |-> "person", in_list |-> ConceptIdsStr(criteria)]

(* ValueError("Unknown criteria type") is the else branch.                  *)
ValueError == [kind |-> "ValueError"]
UnknownCriteriaType == "Unknown criteria type"

_build_criteria_sql(criteria) ==
    CASE criteria.criteria_type = "condition"   -> _build_condition_sql(criteria)
      [] criteria.criteria_type = "drug"        -> _build_drug_sql(criteria)
      [] criteria.criteria_type = "procedure"   -> _build_procedure_sql(criteria)
      [] criteria.criteria_type = "visit"       -> _build_visit_sql(criteria)
      [] criteria.criteria_type = "observation" -> _build_observation_sql(criteria)
      [] criteria.criteria_type = "age"         -> _build_age_sql(criteria)
      [] criteria.criteria_type = "gender"      -> _build_gender_sql(criteria)
      [] OTHER                                  -> ValueError

-----------------------------------------------------------------------------
(* The cohort assembler.                                                    *)

(* f"inclusion_{n}" / f"exclusion_{n}": the prefix and the decimal number.  *)
CteName(prefix, n) == <<prefix, n>>
BasePopulation == <<"base_population">>

(* Mutant: SELECT person_id without DISTINCT.                               *)
BaseQuery_NoDistinct ==
    [name |-> BasePopulation,
     body |-> [kind |-> "base", table |-> "person", distinct |-> FALSE]]

(* WITH base_population AS (SELECT DISTINCT person_id FROM person)          *)
BaseQuery ==
    [name |-> BasePopulation,
     body |-> [kind |-> "base", table |-> "person", distinct |-> TRUE]]

(* Mutant: the counter restarts at 1 for the exclusion CTEs.                *)
CteParts_CounterReset(cohort) ==
    LET incl == cohort.inclusion_criteria
        excl == cohort.exclusion_criteria
    IN  [i \in 1..Len(incl) |->
            [name |-> CteName("inclusion", i),
             body |-> _build_criteria_sql(incl[i])]]
        \o
        [j \in 1..Len(excl) |->
            [name |-> CteName("exclusion", j),
             body |-> _build_criteria_sql(excl[j])]]

(* The two loops over cte_counter.                                          *)
CteParts(cohort) ==
    LET incl == cohort.inclusion_criteria
        excl == cohort.exclusion_criteria
    IN  [i \in 1..Len(incl) |->
            [name |-> CteName("inclusion", i),
             body |-> _build_criteria_sql(incl[i])]]
        \o
        [j \in 1..Len(excl) |->
            [name |-> CteName("exclusion", Len(incl) + j),
             body |-> _build_criteria_sql(excl[j])]]

FinalClauses(op, prefix, from, to) ==
    [i \in 1..(to - from + 1) |-> [op |-> op, from |-> CteName(prefix, from + i - 1)]]

(* Mutant: the exclusion loop writes INTERSECT as the inclusion loop does.  *)
FinalQuery_IntersectAll(cohort) ==
    LET k == Len(cohort.inclusion_criteria)
        m == Len(cohort.exclusion_criteria)
    IN  <<[op |-> "SELECT", from |-> BasePopulation]>>
        \o FinalClauses("INTERSECT", "inclusion", 1, k)
        \o FinalClauses("INTERSECT", "exclusion", k + 1, k + m)

(* Mutant: the EXCEPT loop runs before the INTERSECT loop.                  *)
FinalQuery_ExceptFirst(cohort) ==
    LET k == Len(cohort.inclusion_criteria)
        m == Len(cohort.exclusion_criteria)
    IN  <<[op |-> "SELECT", from |-> BasePopulation]>>
        \o FinalClauses("EXCEPT", "exclusion", k + 1, k + m)
        \o FinalClauses("INTERSECT", "inclusion", 1, k)

(* Mutant: the chain starts from the first inclusion CTE instead of         *)
(* base_population.                                                         *)
FinalQuery_NoBase(cohort) ==
    LET k == Len(cohort.inclusion_criteria)
        m == Len(cohort.exclusion_criteria)
        used == IF k + m = 0 THEN 0 ELSE 1
        first == IF k > 0 THEN CteName("inclusion", 1) ELSE CteName("exclusion", 1)
    IN  <<[op |-> "SELECT", from |-> IF k + m = 0 THEN BasePopulation ELSE first]>>
        \o FinalClauses("INTERSECT", "inclusion", 1 + (IF k > 0 THEN 1 ELSE 0), k)
        \o FinalClauses("EXCEPT", "exclusion", k + 1 + (IF k = 0 THEN used ELSE 0), k + m)

(* Mutant: range(1, inclusion_count) - the last inclusion CTE is not read.  *)
FinalQuery_SkipLast(cohort) ==
    LET k == Len(cohort.inclusion_criteria)
        m == Len(cohort.exclusion_criteria)
    IN  <<[op |-> "SELECT", from |-> BasePopulation]>>
        \o FinalClauses("INTERSECT", "inclusion", 1, k - 1)
        \o FinalClauses("EXCEPT", "exclusion", k + 1, k + m)

(* "SELECT person_id FROM base_population", one INTERSECT per inclusion     *)
(* criterion, then one EXCEPT per exclusion criterion.                      *)
FinalQuery(cohort) ==
    LET inclusion_count == Len(cohort.inclusion_criteria)
        exclusion_count == Len(cohort.exclusion_criteria)
    IN  <<[op |-> "SELECT", from |-> BasePopulation]>>
        \o
        [i \in 1..inclusion_count |->
            [op |-> "INTERSECT", from |-> CteName("inclusion", i)]]
        \o
        [i \in 1..exclusion_count |->
            [op |-> "EXCEPT", from |-> CteName("exclusion", inclusion_count + i)]]

(* Mutant: a criterion is placed by its is_exclusion flag, whatever list it *)
(* came in.                                                                 *)
_build_cohort_sql_ByFlag(cohort) ==
    LET all == cohort.inclusion_criteria \o cohort.exclusion_criteria
        placed == CohortDefinition(SelectSeq(all, LAMBDA c : ~c.is_exclusion),
                                   SelectSeq(all, LAMBDA c : c.is_exclusion))
        parts == CteParts(placed)
    IN  IF \E i \in DOMAIN parts : parts[i].body = ValueError
        THEN ValueError
        ELSE [ctes |-> <<BaseQuery>> \o parts, final |-> FinalQuery(placed)]

_build_cohort_sql(cohort) ==
    LET parts == CteParts(cohort)
    IN  IF \E i \in DOMAIN parts : parts[i].body = ValueError
        THEN ValueError
        ELSE [ctes |-> <<BaseQuery>> \o parts, final |-> FinalQuery(cohort)]

-----------------------------------------------------------------------------
(* The warehouse: what a statement evaluates to on the tables.              *)

IsLeap(y) == (y % 4 = 0 /\ y % 100 # 0) \/ y % 400 = 0

DaysInMonth(y, m) ==
    IF m = 2 THEN (IF IsLeap(y) THEN 29 ELSE 28)
    ELSE IF m \in {4, 6, 9, 11} THEN 30 ELSE 31

ValidDate(y, m, d) == m \in 1..12 /\ d >= 1 /\ d <= DaysInMonth(y, m)

(* Day number of a calendar date (proleptic Gregorian).                     *)
DayNumber(y, m, d) ==
    LET yy  == IF m <= 2 THEN y - 1 ELSE y
        era == yy \div 400
        yoe == yy - era * 400
        mp  == IF m > 2 THEN m - 3 ELSE m + 9
        doy == (153 * mp + 2) \div 5 + d - 1
        doe == yoe * 365 + yoe \div 4 - yoe \div 100 + doy
    IN  era * 146097 + doe

(* FLOOR(DATEDIFF(CURRENT_DATE(), CONCAT(year, '-', LPAD(COALESCE(month,    *)
(* 1), 2, '0'), '-', LPAD(COALESCE(day, 1), 2, '0'))) / 365.25): None when  *)
(* the assembled string is no date (DATEDIFF is then NULL).                 *)
AgeOf(p, today) ==
    LET m == IF IsNone(p.month_of_birth) THEN 1 ELSE Val(p.month_of_birth)
        d == IF IsNone(p.day_of_birth) THEN 1 ELSE Val(p.day_of_birth)
    IN  IF ~ValidDate(p.year_of_birth, m, d) THEN None
        ELSE Some(((DayNumber(today.y, today.m, today.d)
                    - DayNumber(p.year_of_birth, m, d)) * 4) \div 1461)

(* descendant_concept_id of the rows whose ancestor_concept_id is listed.   *)
Descendants(in_list, d) ==
    {q[2] : q \in {r \in d.concept_ancestor : r[1] \in Range(in_list)}}

(* The SQL lexer on a string literal whose opening quote is s[1]: two       *)
(* quotes in a row stand for one quote character, a single quote closes     *)
(* the literal.  end is the position of the closing quote, 0 when the text  *)
(* ends before the literal is closed.                                       *)
RECURSIVE LexFrom(_, _, _)
LexFrom(s, i, acc) ==
    IF i > Len(s) THEN [end |-> 0, value |-> acc]
    ELSE IF s[i] # Quote THEN LexFrom(s, i + 1, Append(acc, s[i]))
    ELSE IF i + 1 <= Len(s) /\ s[i + 1] = Quote THEN LexFrom(s, i + 2, Append(acc, Quote))
    ELSE [end |-> i, value |-> acc]

LexString(s) == LexFrom(s, 2, <<>>)

(* The literal is one string token: it closes at its last character.        *)
WellFormed(lit) == LexString(lit).end = Len(lit)

(* Date strings: the digit k is the text of day k.  Any other text casts    *)
(* to NULL.                                                                 *)
Digits == <<"1", "2">>

DateOfText(text) ==
    IF Len(text) = 1 /\ \E k \in DOMAIN Digits : Digits[k] = text[1]
    THEN Some(CHOOSE k \in DOMAIN Digits : Digits[k] = text[1])
    ELSE None

(* column >= literal / column <= literal; a quoted literal is cast to the   *)
(* column's type, and a comparison with NULL keeps no row.                  *)
PredHolds(row, p) ==
    LET v == IF p.quoted THEN DateOfText(LexString(p.lit).value) ELSE Some(p.lit)
    IN  /\ ~IsNone(v)
        /\ IF p.op = ">=" THEN row[p.col] >= Val(v) ELSE row[p.col] <= Val(v)

PersonIdsOf(rows) == [i \in 1..Len(rows) |-> rows[i].person_id]

CountOf(ids, p) == Cardinality({i \in DOMAIN ids : ids[i] = p})

(* GROUP BY person_id HAVING COUNT >= n: one row per qualifying person.     *)
GroupByHaving(ids, n) == SetToSeq({p \in Range(ids) : CountOf(ids, p) >= n})

AgeCompare(age, frag) ==
    CASE frag.cmp = "="       -> age = Val(frag.args[1])
      [] frag.cmp = ">"       -> age > Val(frag.args[1])
      [] frag.cmp = "<"       -> age < Val(frag.args[1])
      [] frag.cmp = "BETWEEN" -> age >= Val(frag.args[1]) /\ age <= Val(frag.args[2])

(* A fragment the warehouse refuses: an empty IN () list, a quoted literal  *)
(* that closes before its last character (what follows is no SQL), a WHERE  *)
(* clause that is a bare number (no comparison), the unknown identifier     *)
(* None.                                                                    *)
FragmentError(frag) ==
    CASE frag.kind = "event"  ->
            \/ frag.in_list = <<>>
            \/ \E k \in DOMAIN frag.preds :
                  frag.preds[k].quoted /\ ~WellFormed(frag.preds[k].lit)
      [] frag.kind = "gender" -> frag.in_list = <<>>
      [] frag.kind = "age"    ->
            frag.cmp = "" \/ \E i \in DOMAIN frag.args : IsNone(frag.args[i])
      [] OTHER                -> FALSE

EvalFragment(frag, d) ==
    CASE frag.kind = "base" ->
            LET ids == PersonIdsOf(d.person)
            IN  IF frag.distinct THEN SetToSeq(Range(ids)) ELSE ids
      [] frag.kind = "event" ->
            LET closure == Descendants(frag.in_list, d)
                Keep(row) == /\ row[frag.concept_col] \in closure
                             /\ \A k \in DOMAIN frag.preds : PredHolds(row, frag.preds[k])
                ids == PersonIdsOf(SelectSeq(d[frag.table], Keep))
            IN  IF frag.having = 0 THEN ids ELSE GroupByHaving(ids, frag.having)
      [] frag.kind = "age" ->
            LET Keep(row) == LET a == AgeOf(row, d.current_date)
                             IN  ~IsNone(a) /\ AgeCompare(Val(a), frag)
            IN  PersonIdsOf(SelectSeq(d.person, Keep))
      [] frag.kind = "gender" ->
            LET Keep(row) == row.gender_concept_id \in Range(frag.in_list)
            IN  PersonIdsOf(SelectSeq(d.person, Keep))

CteNames(stmt) == [i \in DOMAIN stmt.ctes |-> stmt.ctes[i].name]

StatementError(stmt) ==
    \/ \E i, j \in DOMAIN stmt.ctes : i # j /\ stmt.ctes[i].name = stmt.ctes[j].name
    \/ \E k \in DOMAIN stmt.final : stmt.final[k].from \notin Range(CteNames(stmt))
    \/ \E i \in DOMAIN stmt.ctes : FragmentError(stmt.ctes[i].body)

CteRows(stmt, name, d) ==
    LET i == CHOOSE i \in DOMAIN stmt.ctes : stmt.ctes[i].name = name
    IN  EvalFragment(stmt.ctes[i].body, d)

(* The final chain from its k-th clause on.  INTERSECT binds tighter than   *)
(* EXCEPT, EXCEPT is left-associative, and both return distinct rows: the   *)
(* chain is split at each EXCEPT into runs of INTERSECTed terms, and every  *)
(* later run is subtracted from the first.  run is the run being read,      *)
(* left what the runs before it have left (None before the first EXCEPT).   *)
RECURSIVE EvalChain(_, _, _, _, _)
EvalChain(stmt, d, k, left, run) ==
    LET closed == IF IsNone(left) THEN run ELSE Val(left) \ run
    IN  IF k > Len(stmt.final) THEN closed
        ELSE LET term == Range(CteRows(stmt, stmt.final[k].from, d))
             IN  IF stmt.final[k].op = "INTERSECT"
                 THEN EvalChain(stmt, d, k + 1, left, run \cap term)
                 ELSE EvalChain(stmt, d, k + 1, Some(closed), term)

(* A chain of one term returns its rows as they are.                        *)
EvalFinal(stmt, d) ==
    LET first == CteRows(stmt, stmt.final[1].from, d)
    IN  IF Len(stmt.final) = 1 THEN first
        ELSE SetToSeq(EvalChain(stmt, d, 2, None, Range(first)))

(* The message of the error the warehouse raises for a statement it         *)
(* refuses.                                                                 *)
SqlError == "syntax error"

(* db.execute_query(sql): the rows, or the error the warehouse raised.      *)
execute_query(stmt, d) ==
    IF StatementError(stmt) THEN [ok |-> FALSE, rows |-> <<>>]
    ELSE [ok |-> TRUE, rows |-> EvalFinal(stmt, d)]

(* The statement is an INSERT (the other statements are SELECTs).           *)
IsInsert(stmt) == "kind" \in DOMAIN stmt /\ stmt.kind = "insert"

(* The warehouse refuses an INSERT with a string literal that closes        *)
(* before its last character.                                               *)
InsertError(stmt) ==
    \/ ~WellFormed(stmt.values.cohort_definition_name)
    \/ ~WellFormed(stmt.values.cohort_definition_description)
    \/ ~WellFormed(stmt.values.cohort_definition_syntax)

(* The row an INSERT adds: the numbers as written, the strings as the       *)
(* lexer reads them.                                                        *)
InsertedRow(stmt) ==
    [stmt.values EXCEPT
        !.cohort_definition_name = LexString(@).value,
        !.cohort_definition_description = LexString(@).value,
        !.cohort_definition_syntax = LexString(@).value]

(* The tables after the warehouse has executed a statement: an INSERT       *)
(* appends its row to its table, a SELECT changes nothing.                  *)
Effect(stmt, d) ==
    IF IsInsert(stmt) /\ ~InsertError(stmt)
    THEN [d EXCEPT ![stmt.table] = Append(@, InsertedRow(stmt))]
    ELSE d

RECURSIVE EffectAll(_, _)
EffectAll(stmts, d) ==
    IF stmts = <<>> THEN d ELSE EffectAll(Tail(stmts), Effect(Head(stmts), d))

-----------------------------------------------------------------------------
(* app/services/omop_service.py: the demographics rollup.                   *)

RECURSIVE SumSeq(_)
SumSeq(s) == IF s = <<>> THEN 0 ELSE s[1] + SumSeq(Tail(s))

(* person rows with person_id IN (person_ids_str)                           *)
PersonsIn(ids, d) ==
    LET listed == Range(ids)
    IN  SelectSeq(d.person, LAMBDA row : row.person_id \in listed)

(* gender_sql: person JOIN concept ON gender_concept_id = concept_id,       *)
(* GROUP BY concept_name; the rows come in no stated order.                 *)
GenderDistribution(ids, d) ==
    LET rows == PersonsIn(ids, d)
        Joined == {<<i, c>> \in (DOMAIN rows) \X d.concept :
                      rows[i].gender_concept_id = c.concept_id}
        Names == {jc[2].concept_name : jc \in Joined}
    IN  {[gender |-> nm,
          count  |-> Cardinality({jc \in Joined : jc[2].concept_name = nm})] :
         nm \in Names}

(* age_sql: GROUP BY age ORDER BY age; the NULL group sorts first.          *)
AgeDistribution(ids, d) ==
    LET rows == PersonsIn(ids, d)
        ages == [i \in DOMAIN rows |-> AgeOf(rows[i], d.current_date)]
        Count(a) == Cardinality({i \in DOMAIN ages : ages[i] = a})
        known == SetToSeq({Val(ages[i]) : i \in {k \in DOMAIN ages : ~IsNone(ages[k])}})
    IN  (IF \E i \in DOMAIN ages : IsNone(ages[i])
         THEN <<[age |-> None, count |-> Count(None)]>> ELSE <<>>)
        \o
        [k \in DOMAIN known |-> [age |-> Some(known[k]), count |-> Count(Some(known[k]))]]

(* ages = [row['age'] for row in age_dist if row['age'] is not None];       *)
(* mean is kept as the fraction sum(ages) / len(ages).                      *)
AgeStats(age_dist) ==
    LET rows == SelectSeq(age_dist, LAMBDA row : ~IsNone(row.age))
        ages == [k \in DOMAIN rows |-> Val(rows[k].age)]
    IN  IF ages = <<>>
        THEN [mean |-> <<0, 1>>, min |-> 0, max |-> 0]
        ELSE [mean |-> <<SumSeq(ages), Len(ages)>>,
              min  |-> Min(Range(ages)),
              max  |-> Max(Range(ages))]

GenderSql(ids) == [kind |-> "gender_sql", person_ids |-> ids]
AgeSql(ids) == [kind |-> "age_sql", person_ids |-> ids]

get_demographics_summary(ids, d) ==
    LET age_dist == AgeDistribution(ids, d)
    IN  [gender_distribution |-> GenderDistribution(ids, d),
         age_distribution    |-> age_dist,
         age_stats           |-> AgeStats(age_dist)]

(* person_ids[:1000] and person_ids[:10]                                    *)
DemographicsLimit == 1000
SampleLimit == 10

(* Mutant: the gender query is sent once per person.                        *)
DemographicsQueries_PerPerson(ids) ==
    [i \in 1..Len(ids) |-> GenderSql(<<ids[i]>>)] \o <<AgeSql(ids)>>

(* The two statements get_demographics_summary sends, in order.             *)
DemographicsQueries(ids) == <<GenderSql(ids), AgeSql(ids)>>

(* Mutant: the whole list is handed to get_demographics_summary.            *)
Capped_All(ids) == ids

(* person_ids[:1000], the argument of get_demographics_summary.             *)
Capped(ids) == Prefix(ids, DemographicsLimit)

(* Mutant: sorted(person_ids)[:10]                                          *)
Sample_Sorted(ids) == Prefix(SetToSeq(Range(ids)), SampleLimit)

(* person_ids[:10] if person_ids else []                                    *)
Sample(ids) == IF ids # <<>> THEN Prefix(ids, SampleLimit) ELSE <<>>

-----------------------------------------------------------------------------
(* build_cohort, one step per warehouse round trip.                         *)

(* sql = self._build_cohort_sql(cohort_definition)                          *)
BuildCohortSql ==
    /\ pc = "start"
    /\ sql' = _build_cohort_sql(cohort_definition)
    /\ pc' = IF sql' = ValueError THEN "raised" ELSE "compiled"
    /\ exception' = IF sql' = ValueError THEN Some(UnknownCriteriaType) ELSE exception
    /\ UNCHANGED <<db, cohort_definition, sent, person_ids, result, response>>
    /\ UNCHANGED <<save, call, connections, settings, process, at_start, cors>>

(* Mutant: the inclusion part and the exclusion part are sent as two        *)
(* statements, the second one filtering the rows of the first.              *)
ExecuteCohortQuery_PerFragment ==
    /\ pc = "compiled"
    /\ sent' = Append(sent, sql)
    /\ LET part(prefix) ==
               {i \in DOMAIN sql.ctes : sql.ctes[i].name[1] = prefix}
           rows(i) == Range(EvalFragment(sql.ctes[i].body, db))
       IN  IF StatementError(sql)
           THEN /\ person_ids' = person_ids
                /\ pc' = "raised"
                /\ exception' = Some(SqlError)
           ELSE IF sent = <<>>
           THEN /\ person_ids' \in
                     Orderings(SetToSeq({p \in rows(1) :
                                          \A i \in part("inclusion") : p \in rows(i)}))
                /\ pc' = "compiled"
                /\ exception' = exception
           ELSE /\ person_ids' =
                     SelectSeq(person_ids,
                               LAMBDA p : \A i \in part("exclusion") : p \notin rows(i))
                /\ pc' = "executed"
                /\ exception' = exception
    /\ db' = Effect(sql, db)
    /\ UNCHANGED <<cohort_definition, sql, result, response>>
    /\ UNCHANGED <<save, call, connections, settings, process, at_start, cors>>

(* results = db.execute_query(sql); person_ids = [row['person_id'] ...]     *)
ExecuteCohortQuery ==
    /\ pc = "compiled"
    /\ sent' = Append(sent, sql)
    /\ LET res == execute_query(sql, db)
       IN  IF res.ok
           THEN /\ person_ids' \in Orderings(res.rows)
                /\ pc' = "executed"
                /\ exception' = exception
           ELSE /\ person_ids' = person_ids
                /\ pc' = "raised"
                /\ exception' = Some(SqlError)
    /\ db' = Effect(sql, db)
    /\ UNCHANGED <<cohort_definition, sql, result, response>>
    /\ UNCHANGED <<save, call, connections, settings, process, at_start, cors>>

(* demographics (two queries when person_ids is not empty), the sample,     *)
(* and the CohortResult.                                                    *)
ReturnCohortResult ==
    /\ pc = "executed"
    /\ LET capped == Capped(person_ids)
           queries == IF person_ids # <<>> THEN DemographicsQueries(capped) ELSE <<>>
       IN  /\ sent' = sent \o queries
           /\ db' = EffectAll(queries, db)
           /\ result' =
                Some([patient_count      |-> Len(person_ids),
                      demographics       |-> IF person_ids # <<>>
                                             THEN Some(get_demographics_summary(capped, db))
                                             ELSE None,
                      sample_patient_ids |-> Sample(person_ids),
                      sql_query          |-> sql])
    /\ pc' = "returned"
    /\ UNCHANGED <<cohort_definition, sql, person_ids, exception, response>>
    /\ UNCHANGED <<save, call, connections, settings, process, at_start, cors>>

Next == BuildCohortSql \/ ExecuteCohortQuery \/ ReturnCohortResult

-----------------------------------------------------------------------------
(* Failures of the warehouse call and the routes of app/api/routes.py.       *)

(* The messages of the failures that do not depend on the statement.        *)
Failures == {"network error", "not authorized"}

(* db.execute_query(sql) raises for a reason other than the statement:      *)
(* build_cohort has no try block, the exception leaves it.                  *)
ExecuteCohortQueryFails ==
    /\ pc = "compiled"
    /\ \E m \in Failures : exception' = Some(m)
    /\ sent' = Append(sent, sql)
    /\ pc' = "raised"
    /\ UNCHANGED <<db, cohort_definition, sql, person_ids, result, response>>
    /\ UNCHANGED <<save, call, connections, settings, process, at_start, cors>>

(* The k-th query of get_demographics_summary raises: the queries before    *)
(* it were answered, no later one is sent, nothing is returned.             *)
DemographicsFails ==
    /\ pc = "executed"
    /\ person_ids # <<>>
    /\ \E k \in 1..2, m \in Failures :
          LET queries == Prefix(DemographicsQueries(Capped(person_ids)), k)
          IN  /\ sent' = sent \o queries
              /\ db' = EffectAll(queries, db)
              /\ exception' = Some(m)
    /\ pc' = "raised"
    /\ UNCHANGED <<cohort_definition, sql, person_ids, result, response>>
    /\ UNCHANGED <<save, call, connections, settings, process, at_start, cors>>

(* The routes that answer, none of them answered yet.                       *)
Routes == {"/cohorts/build", "/cohorts/preview-count"}
NoResponses == [r \in Routes |-> None]

(* Mutant: a fixed detail instead of str(e).                                *)
HTTPException_Generic(e) == [status_code |-> 500, detail |-> "Internal Server Error"]

(* raise HTTPException(status_code=500, detail=str(e))                      *)
HTTPException(e) == [status_code |-> 500, detail |-> e]

(* A returned value, answered with status 200.                              *)
Returns(body) == [status_code |-> 200, body |-> body]

(* POST /cohorts/build: the CohortResult of build_cohort, or the            *)
(* HTTPException made of the exception it raised.                           *)
BuildCohortRoute ==
    /\ pc \in {"returned", "raised"}
    /\ IsNone(response["/cohorts/build"])
    /\ response' = [response EXCEPT !["/cohorts/build"] =
                        Some(IF pc = "returned" THEN Returns(Val(result))
                             ELSE HTTPException(Val(exception)))]
    /\ UNCHANGED <<db, cohort_definition, pc, sql, sent, person_ids, result, exception>>
    /\ UNCHANGED <<save, call, connections, settings, process, at_start, cors>>

(* The attributes of the cohort_builder object: __init__ sets schema, the   *)
(* class defines the methods; the module-level db is not one of them.       *)
CohortBuilderAttributes ==
    {"schema", "build_cohort", "_build_cohort_sql", "_build_criteria_sql",
     "_build_condition_sql", "_build_drug_sql", "_build_procedure_sql",
     "_build_visit_sql", "_build_observation_sql", "_build_age_sql",
     "_build_gender_sql", "save_cohort_definition"}

AttributeError == "'CohortBuilder' object has no attribute 'db'"

(* SELECT COUNT(~) as cnt FROM (sql) t                                      *)
CountSql(stmt) == [kind |-> "count", of |-> stmt]

(* POST /cohorts/preview-count: the statement is compiled, then             *)
(* cohort_builder.db is looked up to send the count statement; every        *)
(* exception becomes an HTTPException.                                      *)
PreviewCohortCount ==
    /\ IsNone(response["/cohorts/preview-count"])
    /\ LET stmt == _build_cohort_sql(cohort_definition)
           res == execute_query(stmt, db)
           answer ==
               IF stmt = ValueError THEN HTTPException(UnknownCriteriaType)
               ELSE IF "db" \notin CohortBuilderAttributes
               THEN HTTPException(AttributeError)
               ELSE IF ~res.ok THEN HTTPException(SqlError)
               ELSE Returns([count |-> Len(res.rows)])
           attempted == stmt # ValueError /\ "db" \in CohortBuilderAttributes
       IN  /\ response' = [response EXCEPT !["/cohorts/preview-count"] = Some(answer)]
           /\ sent' = IF attempted THEN Append(sent, CountSql(stmt)) ELSE sent
    /\ UNCHANGED <<db, cohort_definition, pc, sql, person_ids, result, exception>>
    /\ UNCHANGED <<save, call, connections, settings, process, at_start, cors>>

NextRoute ==
    \/ Next
    \/ ExecuteCohortQueryFails \/ DemographicsFails
    \/ BuildCohortRoute \/ PreviewCohortCount

-----------------------------------------------------------------------------
(* save_cohort_definition, one step per warehouse round trip, run by the    *)
(* callers of the API.                                                      *)

MaxCallers == 2       \* callers of save_cohort_definition and of the db layer
Callers == 1..MaxCallers

(* A caller that makes no call, and a caller about to save a request.       *)
NoSave == [pc |-> "off", request |-> None, next_id |-> None, response |-> None]
NoSaves == [t \in Callers |-> NoSave]
Saver(request) == [NoSave EXCEPT !.pc = "idle", !.request = Some(request)]

SaveCohortRequest(name, description, syntax) ==
    [cohort_definition_name        |-> name,
     cohort_definition_description |-> description,
     cohort_definition_syntax      |-> syntax]

(* SELECT COALESCE(MAX(cohort_definition_id), 0) FROM cohort_definition     *)
MaxIdQuery == [kind |-> "max_id", table |-> "cohort_definition"]

(* Mutant: the number of rows instead of the largest id.                    *)
execute_scalar_Count(stmt, d) == Len(d[stmt.table])

(* db.execute_scalar(max_id_query): the first column of the first row.      *)
execute_scalar(stmt, d) ==
    LET ids == {d[stmt.table][i].cohort_definition_id : i \in DOMAIN d[stmt.table]}
    IN  IF ids = {} THEN 0 ELSE Max(ids)

(* The INSERT statement: next_id three times, the three strings of the      *)
(* request with their quotes doubled and written between quotes, and        *)
(* today's date.                                                            *)
InsertSql(next_id, request, current_date) ==
    [kind   |-> "insert",
     table  |-> "cohort_definition",
     values |->
        [cohort_definition_id          |-> next_id,
         cohort_definition_name        |->
            Quoted(Escape(request.cohort_definition_name)),
         cohort_definition_description |->
            Quoted(Escape(request.cohort_definition_description)),
         definition_type_concept_id    |-> next_id,
         cohort_definition_syntax      |->
            Quoted(Escape(request.cohort_definition_syntax)),
         subject_concept_id            |-> next_id,
         cohort_initiation_date        |-> current_date]]

SaveCohortResponse(next_id, request, current_date) ==
    [cohort_definition_id          |-> next_id,
     cohort_definition_name        |-> request.cohort_definition_name,
     cohort_definition_description |-> request.cohort_definition_description,
     cohort_initiation_date        |-> current_date]

(* max_id = db.execute_scalar(max_id_query); next_id = max_id + 1           *)
SaveMaxId(t) ==
    /\ save[t].pc = "idle"
    /\ sent' = Append(sent, MaxIdQuery)
    /\ save' = [save EXCEPT ![t].pc = "insert",
                            ![t].next_id = Some(execute_scalar(MaxIdQuery, db) + 1)]
    /\ db' = Effect(MaxIdQuery, db)
    /\ UNCHANGED <<cohort_definition, pc, sql, person_ids, result, call, connections,
                   exception, response, settings, process, at_start, cors>>

(* db.execute_query(insert_sql) and the SaveCohortResponse; the call raises *)
(* what the warehouse raises.                                               *)
SaveInsert(t) ==
    /\ save[t].pc = "insert"
    /\ LET request == Val(save[t].request)
           next_id == Val(save[t].next_id)
           insert_sql == InsertSql(next_id, request, db.current_date)
       IN  /\ sent' = Append(sent, insert_sql)
           /\ db' = Effect(insert_sql, db)
           /\ save' = IF InsertError(insert_sql)
                      THEN [save EXCEPT ![t].pc = "raised"]
                      ELSE [save EXCEPT
                              ![t].pc = "returned",
                              ![t].response =
                                  Some(SaveCohortResponse(next_id, request,
                                                          db.current_date))]
    /\ UNCHANGED <<cohort_definition, pc, sql, person_ids, result, call, connections,
                   exception, response, settings, process, at_start, cors>>

(* Saves run one after another: a call starts when no other call is       *)
(* between its two statements.                                              *)
SaveInTurn(t) ==
    /\ \A u \in Callers : save[u].pc # "insert"
    /\ SaveMaxId(t)

NextSave == \E t \in Callers : SaveInTurn(t) \/ SaveInsert(t)

(* Saves of concurrent requests: each statement is a call of its own on a   *)
(* connection of its own, and a call starts whenever its request arrives.   *)
NextConcurrentSave == \E t \in Callers : SaveMaxId(t) \/ SaveInsert(t)

-----------------------------------------------------------------------------
(* app/db/databricks.py: execute_query and execute_scalar inside             *)
(* get_connection, one step per statement that reads or writes what the     *)
(* process shares (os.environ, the ssl module) and per call into the        *)
(* connector.  A call is at "idle" before `with self.get_connection()`, and *)
(* its connection is the index of the connection in connections (0:         *)
(* connection is still None).                                               *)

NoCall ==
    [pc |-> "off", op |-> "execute_query", connection |-> 0, exc |-> FALSE,
     original_ssl_verify |-> None, original_requests_verify |-> None,
     original_context |-> None]
NoCalls == [t \in Callers |-> NoCall]
Caller(op) == [NoCall EXCEPT !.pc = "idle", !.op = op]

(* A call is inside get_connection.                                         *)
InProgress(t) == call[t].pc \notin {"off", "idle", "returned", "raised"}

(* connection = None; original_ssl_verify = os.environ.get('CURL_CA_BUNDLE') *)
Enter(t) ==
    /\ call[t].pc = "idle"
    /\ call' = [call EXCEPT ![t].pc = "get_requests",
                            ![t].original_ssl_verify = process.environ.CURL_CA_BUNDLE]
    /\ UNCHANGED <<db, cohort_definition, pc, sql, sent, person_ids, result, save,
                   exception, response, settings, at_start, cors>>
    /\ UNCHANGED <<connections, process>>

(* original_requests_verify = os.environ.get('REQUESTS_CA_BUNDLE');         *)
(* original_context = None; `if not self.verify_ssl:`                       *)
GetRequestsVerify(t) ==
    /\ call[t].pc = "get_requests"
    /\ call' = [call EXCEPT
                  ![t].pc = IF settings.databricks_verify_ssl
                            THEN "connect" ELSE "set_curl",
                  ![t].original_requests_verify = process.environ.REQUESTS_CA_BUNDLE]
    /\ UNCHANGED <<db, cohort_definition, pc, sql, sent, person_ids, result, save,
                   exception, response, settings, at_start, cors>>
    /\ UNCHANGED <<connections, process>>

(* os.environ['CURL_CA_BUNDLE'] = ''                                        *)
SetCurl(t) ==
    /\ call[t].pc = "set_curl"
    /\ process' = [process EXCEPT !.environ.CURL_CA_BUNDLE = Some("")]
    /\ call' = [call EXCEPT ![t].pc = "set_requests"]
    /\ UNCHANGED <<db, cohort_definition, pc, sql, sent, person_ids, result, save,
                   exception, response, settings, at_start, cors>>
    /\ UNCHANGED connections

(* os.environ['REQUESTS_CA_BUNDLE'] = ''                                    *)
SetRequests(t) ==
    /\ call[t].pc = "set_requests"
    /\ process' = [process EXCEPT !.environ.REQUESTS_CA_BUNDLE = Some("")]
    /\ call' = [call EXCEPT ![t].pc = "get_context"]
    /\ UNCHANGED <<db, cohort_definition, pc, sql, sent, person_ids, result, save,
                   exception, response, settings, at_start, cors>>
    /\ UNCHANGED connections

(* original_context = ssl._create_default_https_context                     *)
GetContext(t) ==
    /\ call[t].pc = "get_context"
    /\ call' = [call EXCEPT
                  ![t].pc = "set_context",
                  ![t].original_context = Some(process._create_default_https_context)]
    /\ UNCHANGED <<db, cohort_definition, pc, sql, sent, person_ids, result, save,
                   exception, response, settings, at_start, cors>>
    /\ UNCHANGED <<connections, process>>

(* ssl._create_default_https_context = ssl._create_unverified_context       *)
SetContext(t) ==
    /\ call[t].pc = "set_context"
    /\ process' = [process EXCEPT
                     !._create_default_https_context = "_create_unverified_context"]
    /\ call' = [call EXCEPT ![t].pc = "connect"]
    /\ UNCHANGED <<db, cohort_definition, pc, sql, sent, person_ids, result, save,
                   exception, response, settings, at_start, cors>>
    /\ UNCHANGED connections

(* connection = sql.connect(...); yield connection                          *)
Connect(t) ==
    /\ call[t].pc = "connect"
    /\ connections' = Append(connections,
                             [open |-> TRUE, cursor |-> "none", statements |-> 0])
    /\ call' = [call EXCEPT ![t].pc = "cursor", ![t].connection = Len(connections) + 1]
    /\ UNCHANGED <<db, cohort_definition, pc, sql, sent, person_ids, result, save,
                   exception, response, settings, at_start, cors>>
    /\ UNCHANGED process

(* sql.connect raises: logged and raised again; the with body does not run  *)
(* and the finally block finds connection still None.                       *)
ConnectFails(t) ==
    /\ call[t].pc = "connect"
    /\ call' = [call EXCEPT ![t].pc = "exit", ![t].exc = TRUE]
    /\ UNCHANGED <<db, cohort_definition, pc, sql, sent, person_ids, result, save,
                   exception, response, settings, at_start, cors>>
    /\ UNCHANGED <<connections, process>>

(* cursor = conn.cursor(), before the try block                             *)
Cursor(t) ==
    /\ call[t].pc = "cursor"
    /\ connections' = [connections EXCEPT ![call[t].connection].cursor = "open"]
    /\ call' = [call EXCEPT ![t].pc = "execute"]
    /\ UNCHANGED <<db, cohort_definition, pc, sql, sent, person_ids, result, save,
                   exception, response, settings, at_start, cors>>
    /\ UNCHANGED process

(* conn.cursor() raises: the exception leaves the with body.                *)
CursorFails(t) ==
    /\ call[t].pc = "cursor"
    /\ call' = [call EXCEPT ![t].pc = "exit", ![t].exc = TRUE]
    /\ UNCHANGED <<db, cohort_definition, pc, sql, sent, person_ids, result, save,
                   exception, response, settings, at_start, cors>>
    /\ UNCHANGED <<connections, process>>

(* cursor.execute(query)                                                    *)
Execute(t) ==
    /\ call[t].pc = "execute"
    /\ connections' = [connections EXCEPT ![call[t].connection].statements = @ + 1]
    /\ call' = [call EXCEPT ![t].pc = "fetch"]
    /\ UNCHANGED <<db, cohort_definition, pc, sql, sent, person_ids, result, save,
                   exception, response, settings, at_start, cors>>
    /\ UNCHANGED process

(* cursor.execute raises: except logs and raises again, finally follows.    *)
ExecuteFails(t) ==
    /\ call[t].pc = "execute"
    /\ connections' = [connections EXCEPT ![call[t].connection].statements = @ + 1]
    /\ call' = [call EXCEPT ![t].pc = "close_cursor", ![t].exc = TRUE]
    /\ UNCHANGED <<db, cohort_definition, pc, sql, sent, person_ids, result, save,
                   exception, response, settings, at_start, cors>>
    /\ UNCHANGED process

(* cursor.fetchall() in execute_query, cursor.fetchone() in execute_scalar  *)
Fetch(t) ==
    /\ call[t].pc = "fetch"
    /\ call' = [call EXCEPT ![t].pc = "close_cursor"]
    /\ UNCHANGED <<db, cohort_definition, pc, sql, sent, person_ids, result, save,
                   exception, response, settings, at_start, cors>>
    /\ UNCHANGED <<connections, process>>

FetchFails(t) ==
    /\ call[t].pc = "fetch"
    /\ call' = [call EXCEPT ![t].pc = "close_cursor", ![t].exc = TRUE]
    /\ UNCHANGED <<db, cohort_definition, pc, sql, sent, person_ids, result, save,
                   exception, response, settings, at_start, cors>>
    /\ UNCHANGED <<connections, process>>

(* finally: cursor.close()                                                  *)
CloseCursor(t) ==
    /\ call[t].pc = "close_cursor"
    /\ connections' = [connections EXCEPT ![call[t].connection].cursor = "closed"]
    /\ call' = [call EXCEPT ![t].pc = "exit"]
    /\ UNCHANGED <<db, cohort_definition, pc, sql, sent, person_ids, result, save,
                   exception, response, settings, at_start, cors>>
    /\ UNCHANGED process

(* get_connection's finally block, first statement:                         *)
(* if original_context is not None:                                         *)
(*     ssl._create_default_https_context = original_context                 *)
RestoreContext(t) ==
    /\ call[t].pc = "exit"
    /\ process' = IF ~IsNone(call[t].original_context)
                  THEN [process EXCEPT !._create_default_https_context =
                                            Val(call[t].original_context)]
                  ELSE process
    /\ call' = [call EXCEPT ![t].pc = "restore_curl"]
    /\ UNCHANGED <<db, cohort_definition, pc, sql, sent, person_ids, result, save,
                   exception, response, settings, at_start, cors>>
    /\ UNCHANGED connections

(* if original_ssl_verify is not None:                                      *)
(*     os.environ['CURL_CA_BUNDLE'] = original_ssl_verify                   *)
(* elif 'CURL_CA_BUNDLE' in os.environ:    (the del is the next step)       *)
RestoreCurl(t) ==
    /\ call[t].pc = "restore_curl"
    /\ process' = IF ~IsNone(call[t].original_ssl_verify)
                  THEN [process EXCEPT !.environ.CURL_CA_BUNDLE =
                                            call[t].original_ssl_verify]
                  ELSE process
    /\ call' = [call EXCEPT ![t].pc =
                  IF IsNone(call[t].original_ssl_verify)
                     /\ ~IsNone(process.environ.CURL_CA_BUNDLE)
                  THEN "del_curl" ELSE "restore_requests"]
    /\ UNCHANGED <<db, cohort_definition, pc, sql, sent, person_ids, result, save,
                   exception, response, settings, at_start, cors>>
    /\ UNCHANGED connections

(* del os.environ['CURL_CA_BUNDLE']: KeyError when the variable is not set  *)
(* any more; the exception leaves the finally block there.                  *)
DelCurl(t) ==
    /\ call[t].pc = "del_curl"
    /\ process' = [process EXCEPT !.environ.CURL_CA_BUNDLE = None]
    /\ call' = IF IsNone(process.environ.CURL_CA_BUNDLE)
               THEN [call EXCEPT ![t].pc = "raised", ![t].exc = TRUE]
               ELSE [call EXCEPT ![t].pc = "restore_requests"]
    /\ UNCHANGED <<db, cohort_definition, pc, sql, sent, person_ids, result, save,
                   exception, response, settings, at_start, cors>>
    /\ UNCHANGED connections

(* if original_requests_verify is not None:                                 *)
(*     os.environ['REQUESTS_CA_BUNDLE'] = original_requests_verify          *)
(* elif 'REQUESTS_CA_BUNDLE' in os.environ:    (the del is the next step)   *)
RestoreRequests(t) ==
    /\ call[t].pc = "restore_requests"
    /\ process' = IF ~IsNone(call[t].original_requests_verify)
                  THEN [process EXCEPT !.environ.REQUESTS_CA_BUNDLE =
                                            call[t].original_requests_verify]
                  ELSE process
    /\ call' = [call EXCEPT ![t].pc =
                  IF IsNone(call[t].original_requests_verify)
                     /\ ~IsNone(process.environ.REQUESTS_CA_BUNDLE)
                  THEN "del_requests" ELSE "close"]
    /\ UNCHANGED <<db, cohort_definition, pc, sql, sent, person_ids, result, save,
                   exception, response, settings, at_start, cors>>
    /\ UNCHANGED connections

(* del os.environ['REQUESTS_CA_BUNDLE']                                     *)
DelRequests(t) ==
    /\ call[t].pc = "del_requests"
    /\ process' = [process EXCEPT !.environ.REQUESTS_CA_BUNDLE = None]
    /\ call' = IF IsNone(process.environ.REQUESTS_CA_BUNDLE)
               THEN [call EXCEPT ![t].pc = "raised", ![t].exc = TRUE]
               ELSE [call EXCEPT ![t].pc = "close"]
    /\ UNCHANGED <<db, cohort_definition, pc, sql, sent, person_ids, result, save,
                   exception, response, settings, at_start, cors>>
    /\ UNCHANGED connections

(* Mutant: connection.close() after the yield instead of in the finally     *)
(* block, which an exception in the with body skips.                        *)
CloseConnection_NotFinally(t) ==
    /\ call[t].pc = "close"
    /\ connections' = IF call[t].exc THEN connections
                      ELSE [connections EXCEPT ![call[t].connection].open = FALSE]
    /\ call' = [call EXCEPT ![t].pc = IF call[t].exc THEN "raised" ELSE "returned"]
    /\ UNCHANGED <<db, cohort_definition, pc, sql, sent, person_ids, result, save,
                   exception, response, settings, at_start, cors>>
    /\ UNCHANGED process

(* The end of the finally block: `if connection: connection.close()`, and   *)
(* the value is returned or the exception goes on to the caller.            *)
CloseConnection(t) ==
    /\ call[t].pc = "close"
    /\ connections' = IF call[t].connection # 0
                      THEN [connections EXCEPT ![call[t].connection].open = FALSE]
                      ELSE connections
    /\ call' = [call EXCEPT ![t].pc = IF call[t].exc THEN "raised" ELSE "returned"]
    /\ UNCHANGED <<db, cohort_definition, pc, sql, sent, person_ids, result, save,
                   exception, response, settings, at_start, cors>>
    /\ UNCHANGED process

(* The steps of a call after it has entered get_connection.                 *)
Proceed(t) ==
    \/ GetRequestsVerify(t)
    \/ SetCurl(t) \/ SetRequests(t) \/ GetContext(t) \/ SetContext(t)
    \/ Connect(t) \/ ConnectFails(t)
    \/ Cursor(t) \/ CursorFails(t)
    \/ Execute(t) \/ ExecuteFails(t)
    \/ Fetch(t) \/ FetchFails(t)
    \/ CloseCursor(t)
    \/ RestoreContext(t)
    \/ RestoreCurl(t) \/ DelCurl(t)
    \/ RestoreRequests(t) \/ DelRequests(t)
    \/ CloseConnection(t)

(* The routes are coroutines (async def) that call the db layer without     *)
(* awaiting: a process runs its requests one at a time, so a call enters    *)
(* get_connection when no other call of the process is inside it.           *)
EnterInTurn(t) ==
    /\ \A u \in Callers : ~InProgress(u)
    /\ Enter(t)

NextConnection == \E t \in Callers : EnterInTurn(t) \/ Proceed(t)

(* Calls that overlap: callers of the db layer on several threads of one    *)
(* process, each step of a call atomic.                                     *)
NextOverlapping == \E t \in Callers : Enter(t) \/ Proceed(t)

-----------------------------------------------------------------------------
(* app/config.py: the settings, and the state of the process they are used  *)
(* in.                                                                      *)

(* cors_origins: str = "http://localhost:3000,http://localhost:3001"        *)
DefaultCorsOrigins ==
    <<"h", "t", "t", "p", ":", "/", "/", "l", "o", "c", "a", "l", "h", "o",
      "s", "t", ":", "3", "0", "0", "0", ",", "h", "t", "t", "p", ":", "/",
      "/", "l", "o", "c", "a", "l", "h", "o", "s", "t", ":", "3", "0", "0",
      "1">>

(* databricks_verify_ssl: bool = True                                       *)
DefaultSettings ==
    [databricks_verify_ssl |-> TRUE, cors_origins |-> DefaultCorsOrigins]

(* A process started with neither CA bundle variable set and Python's       *)
(* verifying default HTTPS context factory.                                 *)
DefaultProcess ==
    [environ |-> [CURL_CA_BUNDLE |-> None, REQUESTS_CA_BUNDLE |-> None],
     _create_default_https_context |-> "create_default_context"]

(* text.split(","): the pieces between the commas.                          *)
RECURSIVE Split(_)
Split(text) ==
    LET commas == {i \in DOMAIN text : text[i] = ","}
    IN  IF commas = {} THEN <<text>>
        ELSE <<SubSeq(text, 1, Min(commas) - 1)>>
             \o Split(SubSeq(text, Min(commas) + 1, Len(text)))

(* text.strip(): without the whitespace at either end.                      *)
RECURSIVE Strip(_)
Strip(text) ==
    IF text # <<>> /\ text[1] = " " THEN Strip(Tail(text))
    ELSE IF text # <<>> /\ text[Len(text)] = " "
    THEN Strip(SubSeq(text, 1, Len(text) - 1))
    ELSE text

(* The origins of `for origin in self.cors_origins.split(","):` after       *)
(* origin.strip().                                                          *)
ConfiguredOrigins(cors_origins) ==
    LET pieces == Split(cors_origins)
    IN  [i \in DOMAIN pieces |-> Strip(pieces[i])]

(* Mutant: every origin goes into the list, wildcard or not.                *)
cors_origins_list_All(cors_origins) == ConfiguredOrigins(cors_origins)

(* Settings.cors_origins_list: the origins without "*".                     *)
cors_origins_list(cors_origins) ==
    SelectSeq(ConfiguredOrigins(cors_origins), LAMBDA origin : "*" \notin Range(origin))

(* re.escape: a backslash in front of every special character (of the      *)
(* printable ones).                                                         *)
RECURSIVE re_escape(_)
re_escape(text) ==
    IF text = <<>> THEN <<>>
    ELSE (IF Head(text) \in {"(", ")", "[", "]", "{", "}", "?", "*", "+", "-", "|", "^",
                             "$", "\\", ".", "&", "~", "#", " "}
          THEN <<"\\", Head(text)>> ELSE <<Head(text)>>)
         \o re_escape(Tail(text))

(* text.replace(r"\*", ".*"): from the left, occurrences that do not        *)
(* overlap.                                                                 *)
RECURSIVE ReplaceStar(_)
ReplaceStar(text) ==
    IF text = <<>> THEN <<>>
    ELSE IF Len(text) >= 2 /\ text[1] = "\\" /\ text[2] = "*"
    THEN <<".", "*">> \o ReplaceStar(SubSeq(text, 3, Len(text)))
    ELSE <<Head(text)>> \o ReplaceStar(Tail(text))

(* "|".join(regex_patterns)                                                 *)
RECURSIVE Join(_)
Join(patterns) ==
    IF patterns = <<>> THEN <<>>
    ELSE IF Len(patterns) = 1 THEN patterns[1]
    ELSE patterns[1] \o <<"|">> \o Join(Tail(patterns))

(* regex_patterns of cors_origin_regex: one pattern per origin with "*".    *)
RegexPatterns(cors_origins) ==
    LET wild == SelectSeq(ConfiguredOrigins(cors_origins),
                          LAMBDA origin : "*" \in Range(origin))
    IN  [i \in DOMAIN wild |-> ReplaceStar(re_escape(wild[i]))]

(* Mutant: the patterns joined in a group without the anchors.              *)
cors_origin_regex_NoAnchors(cors_origins) ==
    LET regex_patterns == RegexPatterns(cors_origins)
    IN  IF regex_patterns # <<>>
        THEN Some(<<"(">> \o Join(regex_patterns) \o <<")">>)
        ELSE None

(* Settings.cors_origin_regex: "^(" + "|".join(regex_patterns) + ")$", or   *)
(* None without a wildcard origin.                                          *)
cors_origin_regex(cors_origins) ==
    LET regex_patterns == RegexPatterns(cors_origins)
    IN  IF regex_patterns # <<>>
        THEN Some(<<"^", "(">> \o Join(regex_patterns) \o <<")", "$">>)
        ELSE None

(* The regular expression as the re module reads it: a backslash and the    *)
(* character after it are that character, ".*" is any string, a lone "."    *)
(* any one character, "|" separates alternatives, every other character is  *)
(* itself.                                                                  *)
RECURSIVE Tokens(_)
Tokens(text) ==
    IF text = <<>> THEN <<>>
    ELSE IF text[1] = "\\" /\ Len(text) >= 2
    THEN <<[kind |-> "char", char |-> text[2]]>> \o Tokens(SubSeq(text, 3, Len(text)))
    ELSE IF text[1] = "." /\ Len(text) >= 2 /\ text[2] = "*"
    THEN <<[kind |-> "any", char |-> ""]>> \o Tokens(SubSeq(text, 3, Len(text)))
    ELSE IF text[1] = "."
    THEN <<[kind |-> "one", char |-> ""]>> \o Tokens(Tail(text))
    ELSE IF text[1] = "|"
    THEN <<[kind |-> "or", char |-> ""]>> \o Tokens(Tail(text))
    ELSE <<[kind |-> "char", char |-> text[1]]>> \o Tokens(Tail(text))

(* The alternatives of a token list, split at its "|" tokens.               *)
RECURSIVE Alternatives(_)
Alternatives(tokens) ==
    LET bars == {i \in DOMAIN tokens : tokens[i].kind = "or"}
    IN  IF bars = {} THEN <<tokens>>
        ELSE <<SubSeq(tokens, 1, Min(bars) - 1)>>
             \o Alternatives(SubSeq(tokens, Min(bars) + 1, Len(tokens)))

(* The tokens match text from its first character on: up to its end when    *)
(* to_end, up to any place otherwise.                                       *)
RECURSIVE MatchTokens(_, _, _)
MatchTokens(tokens, text, to_end) ==
    IF tokens = <<>> THEN ~to_end \/ text = <<>>
    ELSE IF tokens[1].kind = "any"
    THEN \E k \in 0..Len(text) :
            MatchTokens(Tail(tokens), SubSeq(text, k + 1, Len(text)), to_end)
    ELSE /\ text # <<>>
         /\ tokens[1].kind = "one" \/ tokens[1].char = text[1]
         /\ MatchTokens(Tail(tokens), Tail(text), to_end)

(* re.compile(cors_regex).match(origin): the group of alternatives,         *)
(* applied at the start of origin (with or without "^"), and up to its end  *)
(* when the regex ends in "$".                                              *)
re_match(regex, origin) ==
    LET from == IF regex[1] = "^" THEN 3 ELSE 2
        to_end == regex[Len(regex)] = "$"
        to == IF to_end THEN Len(regex) - 2 ELSE Len(regex) - 1
        alternatives == Alternatives(Tokens(SubSeq(regex, from, to)))
    IN  \E i \in DOMAIN alternatives : MatchTokens(alternatives[i], origin, to_end)

(* The CORS decision on an Origin: allow_origins is the list,               *)
(* allow_origin_regex the regex.                                            *)
is_allowed_origin(cors_origins, origin) ==
    LET allow_origins == cors_origins_list(cors_origins)
        allow_origin_regex == cors_origin_regex(cors_origins)
    IN  \/ origin \in Range(allow_origins)
        \/ ~IsNone(allow_origin_regex) /\ re_match(Val(allow_origin_regex), origin)

(* The decision on a request with an Origin header.                         *)
CorsDecision ==
    /\ ~IsNone(cors.origin)
    /\ IsNone(cors.allowed)
    /\ cors' = [cors EXCEPT !.allowed =
                    Some(is_allowed_origin(settings.cors_origins, Val(cors.origin)))]
    /\ UNCHANGED <<db, cohort_definition, pc, sql, sent, person_ids, result, save, call,
                   connections, exception, response, settings, process, at_start>>

(* Inputs 11: a process started with no CA bundle variable set, with        *)
(* CURL_CA_BUNDLE set, and with both set.                                   *)
Processes ==
    {DefaultProcess,
     [DefaultProcess EXCEPT !.environ.CURL_CA_BUNDLE = Some("/etc/ssl/ca.pem")],
     [DefaultProcess EXCEPT !.environ.CURL_CA_BUNDLE = Some("/etc/ssl/ca.pem"),
                            !.environ.REQUESTS_CA_BUNDLE = Some("/etc/ssl/ca.pem")]}

(* No request with an Origin header has been received.                      *)
NoRequest == [origin |-> None, allowed |-> None]

-----------------------------------------------------------------------------
(* The inputs: warehouse contents and cohort definitions.                   *)

MaxPerson == 2        \* person_ids 1..MaxPerson in the generated tables
MaxRows == 3          \* rows of an event table in the row-level inputs
MaxCriteria == 2      \* length of an inclusion or exclusion list
MaxOccurrences == 2   \* min_occurrences ranges over 1..MaxOccurrences

(* Event dates (day numbers) and observation values: an early/low and a    *)
(* late/high one.                                                           *)
Scalars == <<1, 2>>

(* Concepts: type 2 diabetes (201826), one of its descendants (4193704),    *)
(* metformin (1503297); gender concepts 8507 and 8532.                      *)
ConceptSeq == <<201826, 4193704>>

AncestorRows ==
    {<<201826, 201826>>, <<201826, 4193704>>, <<4193704, 4193704>>,
     <<1503297, 1503297>>}

ConceptRows ==
    {[concept_id |-> 8507, concept_name |-> "MALE"],
     [concept_id |-> 8532, concept_name |-> "FEMALE"]}

Person(id, gender, y, m, d) ==
    [person_id |-> id, gender_concept_id |-> gender,
     year_of_birth |-> y, month_of_birth |-> m, day_of_birth |-> d]

EventRow(type, p, c, dt, v) ==
    CASE type = "condition" ->
            [person_id |-> p, condition_concept_id |-> c, condition_start_date |-> dt]
      [] type = "drug" ->
            [person_id |-> p, drug_concept_id |-> c, drug_exposure_start_date |-> dt]
      [] type = "procedure" ->
            [person_id |-> p, procedure_concept_id |-> c, procedure_date |-> dt]
      [] type = "visit" ->
            [person_id |-> p, visit_concept_id |-> c, visit_start_date |-> dt]
      [] type = "observation" ->
            [person_id |-> p, observation_concept_id |-> c, observation_date |-> dt,
             value_as_number |-> v]

TableOf(type) ==
    CASE type = "condition"   -> "condition_occurrence"
      [] type = "drug"        -> "drug_exposure"
      [] type = "procedure"   -> "procedure_occurrence"
      [] type = "visit"       -> "visit_occurrence"
      [] type = "observation" -> "observation"

EmptyDb ==
    [person               |-> <<>>,
     concept              |-> ConceptRows,
     concept_ancestor     |-> AncestorRows,
     condition_occurrence |-> <<>>,
     drug_exposure        |-> <<>>,
     procedure_occurrence |-> <<>>,
     visit_occurrence     |-> <<>>,
     observation          |-> <<>>,
     cohort_definition    |-> <<>>,
     current_date         |-> [y |-> 2024, m |-> 1, d |-> 1]]

DefaultPerson(id) ==
    Person(id, IF id % 2 = 1 THEN 8507 ELSE 8532, 1980 + 10 * id, None, None)

PersonTable(S) == [i \in 1..Cardinality(S) |-> DefaultPerson(SetToSeq(S)[i])]

(* Sequences over 1..n of length at most len, in non-decreasing order: one  *)
(* representative of every bag of at most len rows.                         *)
Bags(n, len) ==
    UNION {{s \in [1..l -> 1..n] : \A i, j \in 1..l : i <= j => s[i] <= s[j]} :
           l \in 0..len}

(* The fixture of the scenario: 5 subjects, subjects 1, 2, 3 have the       *)
(* condition, subject 2 also has the drug.                                  *)
FixtureDb ==
    [EmptyDb EXCEPT
        !.person = <<Person(1, 8507, 2000, Some(6), Some(15)),
                     Person(2, 8532, 1950, Some(1), Some(1)),
                     Person(3, 8507, 1985, None, None),
                     Person(4, 8532, 2010, Some(12), Some(31)),
                     Person(5, 8507, 1970, Some(2), None)>>,
        !.condition_occurrence =
            <<EventRow("condition", 1, 201826, 1, 0),
              EventRow("condition", 2, 4193704, 1, 0),
              EventRow("condition", 2, 201826, 2, 0),
              EventRow("condition", 3, 201826, 2, 0)>>,
        !.drug_exposure = <<EventRow("drug", 2, 1503297, 1, 0)>>,
        !.observation =
            <<EventRow("observation", 1, 201826, 1, 1),
              EventRow("observation", 4, 201826, 1, 2)>>]

Concept(type, ids) == [CriteriaDefinition(type) EXCEPT !.concept_ids = ids]

AgeBetween(lo, hi) ==
    [CriteriaDefinition("age") EXCEPT
        !.operator = Some("between"), !.value_min = lo, !.value_max = hi]

CriteriaLists(C) == UNION {[1..l -> C] : l \in 0..MaxCriteria}

Definitions(C) ==
    {CohortDefinition(incl, excl) : incl \in CriteriaLists(C), excl \in CriteriaLists(C)}

(* Inputs 1: the fixture, with every definition over three criteria.        *)
FixtureCriteria ==
    {Concept("condition", Some(<<201826>>)),
     Concept("drug", Some(<<1503297>>)),
     AgeBetween(Some(18), Some(65))}

(* Inputs 2: every content of the person, condition and drug tables over    *)
(* MaxPerson subjects (event rows of subjects absent from person included), *)
(* with every definition that uses each of two criteria at most once per    *)
(* list.                                                                    *)
AssemblyCriteria ==
    {Concept("condition", Some(<<201826>>)),
     Concept("drug", Some(<<1503297>>))}

RowsFor(S, type, c) ==
    [i \in 1..Cardinality(S) |-> EventRow(type, SetToSeq(S)[i], c, 1, 0)]

AssemblyDbs ==
    {[EmptyDb EXCEPT
        !.person = PersonTable(P),
        !.condition_occurrence = RowsFor(A, "condition", 4193704),
        !.drug_exposure = RowsFor(D, "drug", 1503297)] :
     P \in SUBSET (1..MaxPerson),
     A \in SUBSET (1..MaxPerson), D \in SUBSET (1..MaxPerson)}

AssemblyDefinitions ==
    LET Distinct(l) == \A i, j \in DOMAIN l : l[i] = l[j] => i = j
        Lists == {l \in CriteriaLists(AssemblyCriteria) : Distinct(l)}
    IN  {CohortDefinition(incl, excl) : incl \in Lists, excl \in Lists}

(* Inputs 3: one event criterion of every event type over every bag of at   *)
(* most MaxRows rows of its table; a row is a subject, a concept and a      *)
(* date (for observation: a value, on date 1).                              *)
UniverseSize == MaxPerson * Len(ConceptSeq) * Len(Scalars)

UniverseRow(type, idx) ==
    LET p == ((idx - 1) % MaxPerson) + 1
        c == ConceptSeq[(((idx - 1) \div MaxPerson) % Len(ConceptSeq)) + 1]
        x == Scalars[((idx - 1) \div (MaxPerson * Len(ConceptSeq))) + 1]
    IN  IF type = "observation" THEN EventRow(type, p, c, 1, x)
        ELSE EventRow(type, p, c, x, 0)

RowDb(type, b) ==
    [EmptyDb EXCEPT
        !.person = PersonTable(1..MaxPerson),
        ![TableOf(type)] = [i \in DOMAIN b |-> UniverseRow(type, b[i])]]

LowerBounds == {None, Some(Scalars[2])}
UpperBounds == {None, Some(Scalars[1])}

(* The date string of an optional day.                                      *)
DateText(x) == IF IsNone(x) THEN None ELSE Some(<<Digits[Val(x)]>>)

RowCriteria(type) ==
    {[CriteriaDefinition(type) EXCEPT
        !.concept_ids = Some(ids),
        !.start_date = IF type = "observation" THEN None ELSE DateText(lo),
        !.end_date = IF type = "observation" THEN None ELSE DateText(hi),
        !.value_min = IF type = "observation" THEN lo ELSE None,
        !.value_max = IF type = "observation" THEN hi ELSE None,
        !.min_occurrences = n] :
     ids \in {<<4193704>>, <<201826, 4193704>>},
     lo \in LowerBounds, hi \in UpperBounds, n \in 1..MaxOccurrences}

(* Inputs 4: the fixture with one criterion, in either list, out of the     *)
(* criteria at the edges of the data model: no concept IDs, ranges without  *)
(* a bound or with min above max, every operator of an Age criterion.       *)
EdgeCriteria ==
    {Concept(type, ids) : type \in ConceptTypes, ids \in {None, Some(<<>>)}}
    \cup
    {AgeBetween(lo, hi) : lo \in {None, Some(18), Some(65)}, hi \in {None, Some(18)}}
    \cup
    {[Concept("observation", Some(<<201826>>)) EXCEPT !.value_min = lo, !.value_max = hi] :
     lo \in {None, Some(1), Some(2)}, hi \in {None, Some(1)}}
    \cup
    {[CriteriaDefinition("age") EXCEPT !.operator = op, !.value = v] :
     op \in {None} \cup {Some(o) : o \in OperatorType}, v \in {None, Some(23)}}

(* Inputs 5: a person table that holds a person_id in several rows (the     *)
(* warehouse enforces no key), with the criteria that read the person table.*)
PersonCriteria ==
    {Concept("gender", Some(<<8507>>)), AgeBetween(Some(18), Some(65))}

DuplicateDb(b) == [EmptyDb EXCEPT !.person = [i \in DOMAIN b |-> DefaultPerson(b[i])]]

(* Inputs 6: Age criteria on persons born on chosen days, evaluated on      *)
(* chosen current dates: the birthday itself, the day before and after it,  *)
(* a date in mid-year, a birth date without month and day.                  *)
BirthDates ==
    {<<2000, Some(6), Some(15)>>, <<2006, Some(1), Some(1)>>,
     <<2006, Some(1), Some(2)>>, <<1958, Some(1), Some(2)>>,
     <<1959, None, None>>, <<2005, Some(12), Some(31)>>}

CurrentDates == {[y |-> 2024, m |-> 1, d |-> 1], [y |-> 2024, m |-> 6, d |-> 15]}

BirthTables ==
    UNION {{[i \in 1..n |-> Person(i, 8507, b[i][1], b[i][2], b[i][3])] :
            b \in [1..n -> BirthDates]} : n \in 1..MaxPerson}

AgeDbs ==
    {[EmptyDb EXCEPT !.person = t, !.current_date = today] :
     t \in BirthTables, today \in CurrentDates}

AgeCriteria == {AgeBetween(Some(lo), Some(65)) : lo \in {18, 23}}

(* Inputs 7: every content of the ancestor-descendant table over two        *)
(* concepts, with a condition criterion on either or both of them and a     *)
(* condition row of either concept for each subject.                        *)
AncestorTables == SUBSET (Range(ConceptSeq) \X Range(ConceptSeq))

ClosureDbs ==
    {[EmptyDb EXCEPT
        !.person = PersonTable(1..MaxPerson),
        !.concept_ancestor = a,
        !.condition_occurrence =
            [i \in 1..MaxPerson |-> EventRow("condition", i, c[i], 1, 0)]] :
     a \in AncestorTables, c \in [1..MaxPerson -> Range(ConceptSeq)]}

ClosureCriteria ==
    {Concept("condition", Some(ids)) :
     ids \in {<<201826>>, <<4193704>>, <<201826, 4193704>>}}

(* Inputs 8: person tables around the two limits of build_cohort, ten       *)
(* sample IDs and a thousand IDs for the demographics, with the empty       *)
(* definition and a gender criterion.                                       *)
LargeSizes ==
    {SampleLimit - 1, SampleLimit, SampleLimit + 1,
     DemographicsLimit, DemographicsLimit + 1, DemographicsLimit + 2}

LargeDb(n) ==
    [EmptyDb EXCEPT
        !.person = [i \in 1..n |->
                       Person(i, IF i % 3 = 0 THEN 8532 ELSE 8507,
                              1950 + (i % 7), None, None)]]

LargeDefinitions ==
    {CohortDefinition(<<>>, <<>>),
     CohortDefinition(<<>>, <<Concept("gender", Some(<<8532>>))>>)}

(* Inputs 9: caller strings, every text of at most MaxText characters out  *)
(* of two digits and the single quote.                                      *)
MaxText == 2          \* length of a caller-supplied string

Chars == {"1", "2", Quote}

Texts == UNION {[1..l -> Chars] : l \in 0..MaxText}

(* A condition criterion whose start_date is any text (or absent), with or  *)
(* without an end_date.                                                     *)
DateTextCriteria ==
    {[Concept("condition", Some(<<201826>>)) EXCEPT !.start_date = lo, !.end_date = hi] :
     lo \in {None} \cup {Some(t) : t \in Texts},
     hi \in {None, Some(<<"2">>)}}

(* Save requests whose name is any text, whose SQL text is the name as a    *)
(* quoted literal, with an empty description or one that is a quote.        *)
TextRequests ==
    {SaveCohortRequest(t, u, Quoted(t)) : t \in Texts, u \in {<<>>, <<Quote>>}}

(* Inputs 10: saves one after another, one per caller, into a               *)
(* cohort_definition table that is empty or holds rows with the given ids.  *)
PlainRequests ==
    {SaveCohortRequest(<<"1">>, <<>>, <<"1">>), SaveCohortRequest(<<"2">>, <<"1">>, <<>>)}

SavedRow(id) ==
    InsertedRow(InsertSql(id, SaveCohortRequest(<<"1">>, <<>>, <<>>),
                          EmptyDb.current_date))

SavedTables ==
    {[i \in DOMAIN ids |-> SavedRow(ids[i])] : ids \in {<<>>, <<1>>, <<3>>, <<2, 1>>}}

(* The state build_cohort starts in for a warehouse and a definition.      *)
Start(d, c) ==
    /\ db = d
    /\ cohort_definition = c
    /\ pc = "start"
    /\ sql = None
    /\ sent = <<>>
    /\ person_ids = <<>>
    /\ result = None
    /\ save = NoSaves
    /\ call = NoCalls
    /\ connections = <<>>
    /\ exception = None
    /\ response = NoResponses
    /\ settings = DefaultSettings
    /\ process = DefaultProcess
    /\ at_start = DefaultProcess
    /\ cors = NoRequest

InitFixture == \E c \in Definitions(FixtureCriteria) : Start(FixtureDb, c)

InitAssembly == \E d \in AssemblyDbs, c \in AssemblyDefinitions : Start(d, c)

InitRows ==
    \E type \in EventTypes :
        \E b \in Bags(UniverseSize, MaxRows), c \in RowCriteria(type) :
            Start(RowDb(type, b), CohortDefinition(<<c>>, <<>>))

InitEdge ==
    \E c \in EdgeCriteria :
        \/ Start(FixtureDb, CohortDefinition(<<c>>, <<>>))
        \/ Start(FixtureDb, CohortDefinition(<<>>, <<c>>))

InitDuplicates ==
    \E b \in Bags(MaxPerson, MaxRows), c \in Definitions(PersonCriteria) :
        Start(DuplicateDb(b), c)

(* The assembler and build_cohort, over whole definitions.                  *)
Init == InitFixture \/ InitAssembly \/ InitEdge \/ InitDuplicates

Spec == Init /\ [][Next]_vars

(* The criteria compiler, over single event criteria and the rows of their  *)
(* table.                                                                   *)
SpecCriteria == InitRows /\ [][Next]_vars

InitAge ==
    \E d \in AgeDbs, c \in AgeCriteria : Start(d, CohortDefinition(<<c>>, <<>>))

InitClosure ==
    \E d \in ClosureDbs, c \in ClosureCriteria :
        Start(d, CohortDefinition(<<c>>, <<>>))

InitLarge ==
    \E n \in LargeSizes, c \in LargeDefinitions : Start(LargeDb(n), c)

(* build_cohort's result: the count, the sample and the demographics.       *)
SpecResult == (InitFixture \/ InitLarge) /\ [][Next]_vars

(* The state in which the callers are about to save their requests and no   *)
(* cohort is being built.                                                   *)
StartSave(d, requests) ==
    /\ db = d
    /\ cohort_definition = CohortDefinition(<<>>, <<>>)
    /\ pc = "idle"
    /\ sql = None
    /\ sent = <<>>
    /\ person_ids = <<>>
    /\ result = None
    /\ save = [t \in Callers |-> Saver(requests[t])]
    /\ call = NoCalls
    /\ connections = <<>>
    /\ exception = None
    /\ response = NoResponses
    /\ settings = DefaultSettings
    /\ process = DefaultProcess
    /\ at_start = DefaultProcess
    /\ cors = NoRequest

InitSaveSequence ==
    \E table \in SavedTables, requests \in [Callers -> PlainRequests] :
        StartSave([EmptyDb EXCEPT !.cohort_definition = table], requests)

InitSaveText ==
    \E request \in TextRequests : StartSave(EmptyDb, [t \in Callers |-> request])

InitDateText ==
    \E c \in DateTextCriteria : Start(FixtureDb, CohortDefinition(<<c>>, <<>>))

(* save_cohort_definition called by one caller after another, and the       *)
(* strings of callers on their way into the SQL text of both operations.    *)
SpecSave ==
    (InitSaveSequence \/ InitSaveText \/ InitDateText) /\ [][Next \/ NextSave]_vars

(* Inputs 14: the definitions over the fixture criteria with every choice   *)
(* of the is_exclusion flag of every criterion.                             *)
WithFlags(cohort, flags) ==
    LET incl == cohort.inclusion_criteria
        excl == cohort.exclusion_criteria
    IN  CohortDefinition(
            [i \in DOMAIN incl |-> [incl[i] EXCEPT !.is_exclusion = flags[i]]],
            [j \in DOMAIN excl |->
                [excl[j] EXCEPT !.is_exclusion = flags[Len(incl) + j]]])

Flags(cohort) ==
    [1..(Len(cohort.inclusion_criteria) + Len(cohort.exclusion_criteria)) -> BOOLEAN]

InitFlags ==
    \E c \in Definitions(FixtureCriteria) :
        \E flags \in Flags(c) : Start(FixtureDb, WithFlags(c, flags))

(* build_cohort on definitions whose criteria carry is_exclusion flags.     *)
SpecFlags == InitFlags /\ [][Next]_vars

(* save_cohort_definition called by concurrent callers.                     *)
SpecConcurrentSave == InitSaveSequence /\ [][NextConcurrentSave]_vars

(* The state in which every caller is about to call execute_query or       *)
(* execute_scalar.                                                          *)
StartCalls(ops, verify_ssl, environment) ==
    /\ db = EmptyDb
    /\ cohort_definition = CohortDefinition(<<>>, <<>>)
    /\ pc = "idle"
    /\ sql = None
    /\ sent = <<>>
    /\ person_ids = <<>>
    /\ result = None
    /\ save = NoSaves
    /\ call = [t \in Callers |-> Caller(ops[t])]
    /\ connections = <<>>
    /\ exception = None
    /\ response = NoResponses
    /\ settings = [DefaultSettings EXCEPT !.databricks_verify_ssl = verify_ssl]
    /\ process = environment
    /\ at_start = environment
    /\ cors = NoRequest

InitConnection ==
    \E ops \in [Callers -> {"execute_query", "execute_scalar"}] :
        \E verify_ssl \in BOOLEAN, environment \in Processes :
            StartCalls(ops, verify_ssl, environment)

(* The db layer: calls of execute_query and execute_scalar, one per caller, *)
(* one after another in every order, each step of the connector succeeding  *)
(* or raising.                                                              *)
SpecConnection == InitConnection /\ [][NextConnection]_vars

(* The db layer with calls that overlap.                                    *)
SpecOverlapping == InitConnection /\ [][NextOverlapping]_vars

(* The warehouse functions the fragments rely on: the age expression and    *)
(* the ancestor-descendant lookup.                                          *)
SpecWarehouse == (InitAge \/ InitClosure) /\ [][Next]_vars

(* Inputs 12: the data states other clients of the warehouse move it        *)
(* through: the fixture; the fixture after subject 2's drug row was         *)
(* replaced by one of subject 1; the fixture after the condition rows of    *)
(* subject 3 were deleted and subject 4 got one.                            *)
DataStates ==
    {FixtureDb,
     [FixtureDb EXCEPT !.drug_exposure = <<EventRow("drug", 1, 1503297, 1, 0)>>],
     [FixtureDb EXCEPT
        !.condition_occurrence =
            <<EventRow("condition", 1, 201826, 1, 0),
              EventRow("condition", 2, 4193704, 1, 0),
              EventRow("condition", 2, 201826, 2, 0),
              EventRow("condition", 4, 201826, 2, 0)>>]}

(* Other clients of the warehouse: between two steps of build_cohort the    *)
(* tables change to another of the data states.                             *)
WarehouseChanges ==
    /\ db' \in DataStates \ {db}
    /\ UNCHANGED <<cohort_definition, pc, sql, sent, person_ids, result, exception,
                   response>>
    /\ UNCHANGED <<save, call, connections, settings, process, at_start, cors>>

NextSnapshot == Next \/ WarehouseChanges

(* build_cohort on a warehouse whose data other clients change.             *)
SpecSnapshot == InitFixture /\ [][NextSnapshot]_vars

(* Inputs 13: CORS_ORIGINS as every text of at most MaxOrigin characters    *)
(* out of a letter, the dot, the wildcard, the comma, the blank and the     *)
(* backslash, and an Origin of at most MaxOrigin characters out of a        *)
(* letter, the dot and the backslash; and the origins and the URLs of       *)
(* test_cors_regex.                                                         *)
MaxOrigin == 3        \* length of CORS_ORIGINS and of an Origin header

CorsTexts == UNION {[1..l -> {"a", ".", "*", ",", " ", "\\"}] : l \in 0..MaxOrigin}

OriginTexts == UNION {[1..l -> {"a", ".", "\\"}] : l \in 0..MaxOrigin}

test_cors_origins ==
    <<"h", "t", "t", "p", ":", "/", "/", "l", "o", "c", "a", "l", "h",
      "o", "s", "t", ":", "3", "0", "0", "0", ",", "h", "t", "t", "p",
      "s", ":", "/", "/", "*", ".", "d", "a", "t", "a", "b", "r", "i",
      "c", "k", "s", ".", "c", "o", "m">>

(* The URLs of test_urls: five that should match, then the wrong port, the  *)
(* malicious domain, the different domain and HTTP instead of HTTPS.         *)
test_urls ==
    <<
    <<"h", "t", "t", "p", ":", "/", "/", "l", "o", "c", "a", "l", "h",
      "o", "s", "t", ":", "3", "0", "0", "0">>,
    <<"h", "t", "t", "p", "s", ":", "/", "/", "m", "y", "w", "o", "r",
      "k", "s", "p", "a", "c", "e", ".", "c", "l", "o", "u", "d", ".",
      "d", "a", "t", "a", "b", "r", "i", "c", "k", "s", ".", "c", "o",
      "m">>,
    <<"h", "t", "t", "p", "s", ":", "/", "/", "c", "o", "m", "p", "a",
      "n", "y", ".", "d", "a", "t", "a", "b", "r", "i", "c", "k", "s",
      ".", "c", "o", "m">>,
    <<"h", "t", "t", "p", "s", ":", "/", "/", "e", "2", "-", "d", "e",
      "m", "o", "-", "f", "i", "e", "l", "d", "-", "e", "n", "g", ".",
      "c", "l", "o", "u", "d", ".", "d", "a", "t", "a", "b", "r", "i",
      "c", "k", "s", ".", "c", "o", "m">>,
    <<"h", "t", "t", "p", "s", ":", "/", "/", "s", "u", "b", "d", "o",
      "m", "a", "i", "n", ".", "w", "o", "r", "k", "s", "p", "a", "c",
      "e", ".", "d", "a", "t", "a", "b", "r", "i", "c", "k", "s", ".",
      "c", "o", "m">>,
    <<"h", "t", "t", "p", ":", "/", "/", "l", "o", "c", "a", "l", "h",
      "o", "s", "t", ":", "3", "0", "0", "1">>,
    <<"h", "t", "t", "p", "s", ":", "/", "/", "d", "a", "t", "a", "b",
      "r", "i", "c", "k", "s", ".", "c", "o", "m", ".", "e", "v", "i",
      "l", ".", "c", "o", "m">>,
    <<"h", "t", "t", "p", "s", ":", "/", "/", "n", "o", "t", "d", "a",
      "t", "a", "b", "r", "i", "c", "k", "s", ".", "c", "o", "m">>,
    <<"h", "t", "t", "p", ":", "/", "/", "d", "a", "t", "a", "b", "r",
      "i", "c", "k", "s", ".", "c", "o", "m">>
    >>

StartCors(cors_origins, origin) ==
    /\ db = EmptyDb
    /\ cohort_definition = CohortDefinition(<<>>, <<>>)
    /\ pc = "start"
    /\ sql = None
    /\ sent = <<>>
    /\ person_ids = <<>>
    /\ result = None
    /\ save = NoSaves
    /\ call = NoCalls
    /\ connections = <<>>
    /\ exception = None
    /\ response = NoResponses
    /\ settings = [DefaultSettings EXCEPT !.cors_origins = cors_origins]
    /\ process = DefaultProcess
    /\ at_start = DefaultProcess
    /\ cors = [origin |-> Some(origin), allowed |-> None]

InitCors ==
    \/ \E cors_origins \in CorsTexts, origin \in OriginTexts :
            StartCors(cors_origins, origin)
    \/ \E cors_origins \in {test_cors_origins, DefaultCorsOrigins}, origin \in Range(test_urls) :
            StartCors(cors_origins, origin)

(* The CORS decision on one request, for every configured origin list.      *)
SpecCors == InitCors /\ [][CorsDecision]_vars

(* The routes over build_cohort, with warehouse calls that fail.            *)
SpecRoute == (InitFixture \/ InitEdge) /\ [][NextRoute]_vars

-----------------------------------------------------------------------------
(* Properties of the cohort assembler.                                      *)

Inclusion == cohort_definition.inclusion_criteria
Exclusion == cohort_definition.exclusion_criteria

BasePersons == {db.person[i].person_id : i \in DOMAIN db.person}

(* The subjects in the fragment of one criterion, on the current tables.    *)
FragmentSubjects(criteria) == Range(EvalFragment(_build_criteria_sql(criteria), db))

Executed == pc \in {"executed", "returned"}

Scenario ==
    CohortDefinition(<<Concept("condition", Some(<<201826>>))>>,
                     <<Concept("drug", Some(<<1503297>>))>>)

(* C1: the subjects build_cohort gets back are exactly the persons of the   *)
(* person table that are in the fragment of every inclusion criterion and   *)
(* in the fragment of no exclusion criterion; on the fixture the scenario   *)
(* definition yields subjects 1 and 3.                                      *)
C1_MembershipExact ==
    Executed =>
        /\ LET inc == [k \in DOMAIN Inclusion |-> FragmentSubjects(Inclusion[k])]
               exc == [k \in DOMAIN Exclusion |-> FragmentSubjects(Exclusion[k])]
           IN  Range(person_ids) =
                  {p \in BasePersons :
                      /\ \A k \in DOMAIN inc : p \in inc[k]
                      /\ \A k \in DOMAIN exc : p \notin exc[k]}
        /\ (db = FixtureDb /\ cohort_definition = Scenario)
              => Range(person_ids) = {1, 3}

(* Subject 2 has the condition and the drug: matched by the inclusion and   *)
(* by the exclusion criterion, and not returned.                            *)
C1_Witness ==
    /\ pc = "executed"
    /\ db = FixtureDb
    /\ cohort_definition = Scenario
    /\ 2 \in FragmentSubjects(Inclusion[1]) \cap FragmentSubjects(Exclusion[1])
    /\ Range(person_ids) = {1, 3}

(* C2: with no inclusion and no exclusion criterion the statement has no    *)
(* INTERSECT and no EXCEPT clause, and patient_count is the number of       *)
(* distinct person_ids of the person table.                                 *)
C2_EmptyDefinitionIsBase ==
    (Inclusion = <<>> /\ Exclusion = <<>>) =>
        /\ pc \in {"compiled", "executed", "returned"} =>
              \A k \in DOMAIN sql.final : sql.final[k].op \notin {"INTERSECT", "EXCEPT"}
        /\ pc = "returned" => Val(result).patient_count = Cardinality(BasePersons)
        /\ pc # "raised"

(* The empty definition on a person table with a repeated person_id.        *)
C2_Witness ==
    /\ pc = "returned"
    /\ Inclusion = <<>> /\ Exclusion = <<>>
    /\ Len(db.person) > Cardinality(BasePersons)
    /\ Val(result).patient_count = MaxPerson

(* Positions of the clauses of one set operator in the final chain, in      *)
(* order of appearance.                                                     *)
Clauses(stmt, op) == SetToSeq({k \in DOMAIN stmt.final : stmt.final[k].op = op})

BodyOf(stmt, name) ==
    {stmt.ctes[i].body : i \in {j \in DOMAIN stmt.ctes : stmt.ctes[j].name = name}}

Compiled == pc \in {"compiled", "executed", "returned"}

(* C3: the final chain starts from base_population, all INTERSECT clauses   *)
(* come before all EXCEPT clauses, and the k-th INTERSECT (EXCEPT) clause   *)
(* reads the CTE compiled from the k-th inclusion (exclusion) criterion.    *)
C3_ClauseOrder ==
    Compiled =>
        LET final == sql.final
            inter == Clauses(sql, "INTERSECT")
            exc   == Clauses(sql, "EXCEPT")
        IN  /\ final[1] = [op |-> "SELECT", from |-> BasePopulation]
            /\ \A k \in 2..Len(final) : final[k].op \in {"INTERSECT", "EXCEPT"}
            /\ \A i \in Range(inter), j \in Range(exc) : i < j
            /\ Len(inter) = Len(Inclusion)
            /\ Len(exc) = Len(Exclusion)
            /\ \A k \in DOMAIN inter :
                  BodyOf(sql, final[inter[k]].from) = {_build_criteria_sql(Inclusion[k])}
            /\ \A k \in DOMAIN exc :
                  BodyOf(sql, final[exc[k]].from) = {_build_criteria_sql(Exclusion[k])}

(* Two different inclusion and two different exclusion criteria.            *)
C3_Witness ==
    /\ pc = "compiled"
    /\ Len(Inclusion) = 2 /\ Inclusion[1] # Inclusion[2]
    /\ Len(Exclusion) = 2 /\ Exclusion[1] # Exclusion[2]
    /\ Len(sql.final) = 5

(* C4: the statement defines base_population, inclusion_1..inclusion_k and  *)
(* exclusion_(k+1)..exclusion_(k+m) and nothing else, no name twice; every  *)
(* name the final chain reads is defined once, and every criterion CTE is   *)
(* read by exactly one clause.                                              *)
C4_CteNames ==
    Compiled =>
        LET k == Len(Inclusion)
            m == Len(Exclusion)
            names == CteNames(sql)
            Refs(name) == {i \in DOMAIN sql.final : sql.final[i].from = name}
            Defs(name) == {i \in DOMAIN names : names[i] = name}
        IN  /\ Range(names) =
                  {BasePopulation}
                  \cup {CteName("inclusion", i) : i \in 1..k}
                  \cup {CteName("exclusion", k + j) : j \in 1..m}
            /\ Len(names) = 1 + k + m
            /\ \A i, j \in DOMAIN names : names[i] = names[j] => i = j
            /\ \A i \in DOMAIN sql.final : Cardinality(Defs(sql.final[i].from)) = 1
            /\ \A i \in 2..Len(names) : Cardinality(Refs(names[i])) = 1

C4_Witness ==
    /\ pc = "compiled"
    /\ Len(Inclusion) = 2
    /\ Len(Exclusion) = 2
    /\ CteNames(sql)[5] = CteName("exclusion", 4)

(* C5: every subject build_cohort gets back is a person of the person       *)
(* table.                                                                   *)
C5_SubsetOfBase ==
    Executed => Range(person_ids) \subseteq BasePersons

(* A definition with exclusion criteria only, on tables where an event row  *)
(* carries a person_id the person table does not hold.                      *)
C5_Witness ==
    /\ pc = "executed"
    /\ Inclusion = <<>>
    /\ Exclusion # <<>>
    /\ \E i \in DOMAIN db.condition_occurrence :
          db.condition_occurrence[i].person_id \notin BasePersons
    /\ person_ids # <<>>

Reorderings(s) ==
    {[i \in DOMAIN s |-> s[f[i]]] :
     f \in {g \in [DOMAIN s -> DOMAIN s] : \A i, j \in DOMAIN s : g[i] = g[j] => i = j}}

(* C6: the subjects returned are the same for every reordering of the       *)
(* inclusion list and of the exclusion list, and all of them are in the     *)
(* fragment of every inclusion criterion.                                   *)
C6_OrderIrrelevant ==
    Executed =>
        /\ \A incl \in Reorderings(Inclusion), excl \in Reorderings(Exclusion) :
              LET res == execute_query(_build_cohort_sql(CohortDefinition(incl, excl)), db)
              IN  res.ok /\ Range(res.rows) = Range(person_ids)
        /\ \A k \in DOMAIN Inclusion : Range(person_ids) \subseteq FragmentSubjects(Inclusion[k])

(* Two inclusion criteria with different fragments, neither contained in    *)
(* the other, and a subject in both.                                        *)
C6_Witness ==
    /\ pc = "executed"
    /\ Len(Inclusion) = 2
    /\ ~(FragmentSubjects(Inclusion[1]) \subseteq FragmentSubjects(Inclusion[2]))
    /\ ~(FragmentSubjects(Inclusion[2]) \subseteq FragmentSubjects(Inclusion[1]))
    /\ person_ids # <<>>

-----------------------------------------------------------------------------
(* Properties of the criteria compiler.                                     *)

AllCriteria == Range(Inclusion) \cup Range(Exclusion)

ConceptColumn(type) ==
    CASE type = "condition"   -> "condition_concept_id"
      [] type = "drug"        -> "drug_concept_id"
      [] type = "procedure"   -> "procedure_concept_id"
      [] type = "visit"       -> "visit_concept_id"
      [] type = "observation" -> "observation_concept_id"

DateColumn(type) ==
    CASE type = "condition"   -> "condition_start_date"
      [] type = "drug"        -> "drug_exposure_start_date"
      [] type = "procedure"   -> "procedure_date"
      [] type = "visit"       -> "visit_start_date"
      [] type = "observation" -> "observation_date"

(* An event row qualifies for a criterion: its concept is a descendant of   *)
(* a listed concept, its date is inside the window, and for an observation  *)
(* its value is inside the range.                                           *)
Qualifies(c, row) ==
    /\ row[ConceptColumn(c.criteria_type)] \in Descendants(ConceptIdsStr(c), db)
    /\ IsNone(c.start_date)
          \/ row[DateColumn(c.criteria_type)] >= Val(DateOfText(Val(c.start_date)))
    /\ IsNone(c.end_date)
          \/ row[DateColumn(c.criteria_type)] <= Val(DateOfText(Val(c.end_date)))
    /\ c.criteria_type = "observation" =>
          /\ IsNone(c.value_min) \/ row.value_as_number >= Val(c.value_min)
          /\ IsNone(c.value_max) \/ row.value_as_number <= Val(c.value_max)

QualifyingRows(c, p) ==
    LET table == db[TableOf(c.criteria_type)]
    IN  {i \in DOMAIN table : table[i].person_id = p /\ Qualifies(c, table[i])}

EventPersons(c) ==
    LET table == db[TableOf(c.criteria_type)]
    IN  {table[i].person_id : i \in DOMAIN table}

HasConcepts(c) == ConceptIdsStr(c) # <<>>

(* C7: with min_occurrences = N > 1 an event criterion selects exactly the  *)
(* subjects with at least N qualifying event rows, whatever their concepts. *)
C7_CountsEventRows ==
    Compiled =>
        \A c \in AllCriteria :
            (c.criteria_type \in EventTypes /\ c.min_occurrences > 1 /\ HasConcepts(c)) =>
                FragmentSubjects(c) =
                    {p \in EventPersons(c) :
                        Cardinality(QualifyingRows(c, p)) >= c.min_occurrences}

(* A subject selected on two qualifying rows of one and the same concept,   *)
(* and a subject with a single qualifying row that is not selected.         *)
C7_Witness ==
    /\ pc = "executed"
    /\ Len(Inclusion) = 1
    /\ Inclusion[1].criteria_type \in EventTypes
    /\ Inclusion[1].min_occurrences = 2
    /\ LET c == Inclusion[1]
           table == db[TableOf(c.criteria_type)]
       IN  /\ \E p \in Range(person_ids) :
                 /\ Cardinality(QualifyingRows(c, p)) = 2
                 /\ \A i, j \in QualifyingRows(c, p) :
                       table[i][ConceptColumn(c.criteria_type)]
                           = table[j][ConceptColumn(c.criteria_type)]
           /\ \E p \in BasePersons \ Range(person_ids) :
                 Cardinality(QualifyingRows(c, p)) = 1

(* C8: a condition criterion with min_occurrences = N > 1 selects a subset  *)
(* of what the same criterion with min_occurrences = 1 selects.             *)
C8_MinOccurrencesShrinks ==
    Compiled =>
        \A c \in AllCriteria :
            (c.criteria_type = "condition" /\ c.min_occurrences > 1 /\ HasConcepts(c)) =>
                FragmentSubjects(c)
                    \subseteq FragmentSubjects([c EXCEPT !.min_occurrences = 1])

(* A condition criterion with a date window and N = 2 that selects a        *)
(* subject and drops another one the N = 1 criterion selects.               *)
C8_Witness ==
    /\ pc = "executed"
    /\ Len(Inclusion) = 1
    /\ Inclusion[1].criteria_type = "condition"
    /\ Inclusion[1].min_occurrences = 2
    /\ ~IsNone(Inclusion[1].start_date)
    /\ person_ids # <<>>
    /\ FragmentSubjects([Inclusion[1] EXCEPT !.min_occurrences = 1])
          \ FragmentSubjects(Inclusion[1]) # {}

(* A criterion the data model rules out: a concept-based type without       *)
(* concept IDs.                                                             *)
MissingConcepts(c) == c.criteria_type \in ConceptTypes /\ ~HasConcepts(c)

(* The compiler refused the definition: it produced no statement and the    *)
(* warehouse received nothing.                                              *)
Rejected == sql \in {None, ValueError} /\ sent = <<>> /\ pc \in {"start", "raised"}

(* C9: a definition holding a concept-based criterion with an empty or      *)
(* absent concept-ID list is rejected by the compiler: no fragment is       *)
(* produced and nothing is sent to the warehouse.                           *)
C9_EmptyConceptsRejected ==
    (\E c \in AllCriteria : MissingConcepts(c)) => Rejected

(* A range with min above max, or an Age Between without both bounds.       *)
MalformedRange(c) ==
    \/ ~IsNone(c.value_min) /\ ~IsNone(c.value_max) /\ Val(c.value_min) > Val(c.value_max)
    \/ /\ c.criteria_type = "age"
       /\ c.operator = Some("between")
       /\ (IsNone(c.value_min) \/ IsNone(c.value_max))

(* C10: a definition holding a criterion with a malformed range is          *)
(* rejected by the compiler and never compiled into a fragment.             *)
C10_MalformedRangeRejected ==
    (\E c \in AllCriteria : MalformedRange(c)) => Rejected

NoDuplicates(s) == \A i, j \in DOMAIN s : s[i] = s[j] => i = j

(* C11: the fragment compiled from a criterion returns every subject at     *)
(* most once, on every content of the tables, also for a subject with       *)
(* several qualifying event rows and min_occurrences = 1.                   *)
C11_FragmentUnique ==
    Compiled =>
        \A c \in AllCriteria :
            ~FragmentError(_build_criteria_sql(c)) =>
                NoDuplicates(EvalFragment(_build_criteria_sql(c), db))

-----------------------------------------------------------------------------
(* Properties of the warehouse functions.                                   *)

(* Age in whole completed years on a date: the difference of the years,     *)
(* less one before the birthday of the year.                                *)
CompletedYears(p, today) ==
    LET m == IF IsNone(p.month_of_birth) THEN 1 ELSE Val(p.month_of_birth)
        d == IF IsNone(p.day_of_birth) THEN 1 ELSE Val(p.day_of_birth)
        before == today.m < m \/ (today.m = m /\ today.d < d)
    IN  today.y - p.year_of_birth - (IF before THEN 1 ELSE 0)

IsAgeBetween(c) ==
    /\ c.criteria_type = "age"
    /\ c.operator = Some("between")
    /\ ~IsNone(c.value_min) /\ ~IsNone(c.value_max)

(* C12: an Age Between(min, max) criterion selects exactly the persons      *)
(* whose age in whole completed years at the current date is in             *)
(* [min, max], the current date being a birthday included; a person born    *)
(* 2000-06-15 has age 23 on 2024-01-01.                                     *)
C12_AgeCompletedYears ==
    /\ \A i \in DOMAIN db.person :
          LET p == db.person[i]
          IN  (/\ p.year_of_birth = 2000
               /\ p.month_of_birth = Some(6) /\ p.day_of_birth = Some(15)
               /\ db.current_date = [y |-> 2024, m |-> 1, d |-> 1])
                  => AgeOf(p, db.current_date) = Some(23)
    /\ (Executed /\ Len(Inclusion) = 1 /\ Exclusion = <<>> /\ IsAgeBetween(Inclusion[1])) =>
          Range(person_ids) =
              {db.person[i].person_id :
               i \in {k \in DOMAIN db.person :
                        LET age == CompletedYears(db.person[k], db.current_date)
                        IN  /\ age >= Val(Inclusion[1].value_min)
                            /\ age <= Val(Inclusion[1].value_max)}}

(* The inclusive closure of a list of concepts: the concepts themselves     *)
(* and every concept the ancestor-descendant table lists as a descendant    *)
(* of one of them.                                                          *)
InclusiveClosure(ids) ==
    Range(ids) \cup {r[2] : r \in {q \in db.concept_ancestor : q[1] \in Range(ids)}}

(* C13: an event criterion with concept IDs C matches the event rows whose  *)
(* concept is in the inclusive closure of C and no other row, on every      *)
(* content of the ancestor-descendant table.                                *)
C13_InclusiveClosure ==
    (/\ Executed /\ Len(Inclusion) = 1 /\ Exclusion = <<>>
     /\ Inclusion[1].criteria_type = "condition"
     /\ HasConcepts(Inclusion[1])
     /\ IsNone(Inclusion[1].start_date) /\ IsNone(Inclusion[1].end_date)
     /\ Inclusion[1].min_occurrences = 1) =>
        Range(person_ids) =
            {p \in BasePersons :
                \E i \in DOMAIN db.condition_occurrence :
                    /\ db.condition_occurrence[i].person_id = p
                    /\ db.condition_occurrence[i].condition_concept_id
                          \in InclusiveClosure(Val(Inclusion[1].concept_ids))}

-----------------------------------------------------------------------------
(* Properties of build_cohort's result.                                     *)

Returned == pc = "returned"

(* The first n elements of a sequence (all of them if it has fewer).        *)
FirstN(s, n) == [i \in 1..(IF Len(s) < n THEN Len(s) ELSE n) |-> s[i]]

IsAscending(s) == \A i, j \in DOMAIN s : i < j => s[i] < s[j]

(* C14: patient_count is the number of rows the cohort statement returned,  *)
(* and sample_patient_ids are the first min(n, 10) of them in the order     *)
(* they were returned.                                                      *)
C14_CountAndSample ==
    Returned =>
        LET rows == execute_query(sql, db).rows
            r == Val(result)
        IN  /\ Len(person_ids) = Len(rows)
            /\ \A p \in Range(rows) : CountOf(person_ids, p) = CountOf(rows, p)
            /\ r.patient_count = Len(rows)
            /\ r.sample_patient_ids = FirstN(person_ids, 10)

(* A result of more than ten rows that did not come back in ascending       *)
(* order.                                                                   *)
C14_Witness ==
    /\ Returned
    /\ Len(person_ids) > 10
    /\ ~IsAscending(person_ids)
    /\ Len(Val(result).sample_patient_ids) = 10
    /\ Val(result).sample_patient_ids[1] = person_ids[1]

(* C15: when the cohort statement returns more than 1000 subjects, the two  *)
(* demographics queries name the first 1000 subject IDs of the result, in   *)
(* result order, and no other ID; patient_count is the full number of       *)
(* subjects and the sample is the first ten of the full result.             *)
C15_DemographicsCap ==
    (Returned /\ Len(person_ids) > 1000) =>
        LET first == FirstN(person_ids, 1000)
            r == Val(result)
        IN  /\ Len(sent) = 3
            /\ sent[2] = [kind |-> "gender_sql", person_ids |-> first]
            /\ sent[3] = [kind |-> "age_sql", person_ids |-> first]
            /\ r.demographics = Some(get_demographics_summary(first, db))
            /\ r.patient_count = Len(person_ids)
            /\ r.sample_patient_ids = FirstN(person_ids, 10)

(* A result of more than 1000 subjects that came back in another order      *)
(* than ascending, so that the first 1000 are not the 1000 smallest IDs.    *)
C15_Witness ==
    /\ Returned
    /\ Len(person_ids) > 1000
    /\ ~IsAscending(person_ids)
    /\ Len(sent[2].person_ids) = 1000
    /\ Val(result).patient_count = Len(person_ids)

(* C16: when the cohort statement returns no subject, build_cohort returns  *)
(* patient_count 0, an empty sample and a demographics summary whose        *)
(* distributions are empty.                                                 *)
C16_EmptyCohortResult ==
    (Returned /\ person_ids = <<>>) =>
        LET r == Val(result)
        IN  /\ r.patient_count = 0
            /\ r.sample_patient_ids = <<>>
            /\ ~IsNone(r.demographics)
            /\ Val(r.demographics).gender_distribution = {}
            /\ Val(r.demographics).age_distribution = <<>>

(* A statement of build_cohort that only reads: the cohort statement or a   *)
(* demographics query.                                                      *)
IsCohortStatement(stmt) == DOMAIN stmt = {"ctes", "final"}
IsDemographicsQuery(stmt) ==
    "kind" \in DOMAIN stmt /\ stmt.kind \in {"gender_sql", "age_sql"}

(* C17: a build_cohort call sends the cohort statement, once, and after it  *)
(* at most two demographics queries, all of them SELECTs and none an        *)
(* INSERT; no step of it changes a table of the warehouse or starts a       *)
(* save_cohort_definition.                                                  *)
C17_ReadOnly ==
    /\ [](/\ pc \in {"start", "compiled"} => sent = <<>>
          /\ pc \in {"executed", "returned"} =>
                /\ Len(sent) >= 1 /\ Len(sent) <= 3
                /\ sent[1] = sql /\ IsCohortStatement(sent[1])
                /\ \A i \in 2..Len(sent) : IsDemographicsQuery(sent[i])
          /\ pc = "raised" => sent \in {<<>>, <<sql>>}
          /\ \A i \in DOMAIN sent : ~IsInsert(sent[i]))
    /\ [][pc' # pc => (db' = db /\ save' = save)]_vars

(* A call that read the cohort and both demographics queries from a         *)
(* warehouse with persons in it.                                            *)
C17_Witness ==
    /\ Returned
    /\ Len(sent) = 3
    /\ db.person # <<>>
    /\ person_ids # <<>>

-----------------------------------------------------------------------------
(* Properties of save_cohort_definition and of the strings inlined in SQL.  *)

SavedIds(d) == {d.cohort_definition[i].cohort_definition_id : i \in DOMAIN d.cohort_definition}

(* C18: a save that returns has added one row to the cohort_definition      *)
(* table; the ID it returns is the ID of that row, it is 1 on an empty      *)
(* table and the largest ID of the table plus 1 otherwise, and it is        *)
(* larger than the ID every earlier save has returned.                      *)
C18_SequentialIds ==
    [][\A t \in Callers :
          (save[t].pc = "insert" /\ save'[t].pc = "returned") =>
              LET id == Val(save'[t].response).cohort_definition_id
                  before == SavedIds(db)
                  table == db'.cohort_definition
              IN  /\ id = IF before = {} THEN 1
                          ELSE (CHOOSE b \in before : \A c \in before : c <= b) + 1
                  /\ \A b \in before : id > b
                  /\ Len(table) = Len(db.cohort_definition) + 1
                  /\ table[Len(table)].cohort_definition_id = id
                  /\ \A u \in Callers :
                        save[u].pc = "returned" =>
                            id > Val(save[u].response).cohort_definition_id]_vars

(* Every caller has saved into a table that held the row with ID 3 only:    *)
(* the IDs returned are 4 and upwards, each one more than the one before.   *)
C18_Witness ==
    /\ \A t \in Callers : save[t].pc = "returned"
    /\ Len(db.cohort_definition) = MaxCallers + 1
    /\ db.cohort_definition[1].cohort_definition_id = 3
    /\ \A i \in 2..Len(db.cohort_definition) :
          db.cohort_definition[i].cohort_definition_id = i + 2
    /\ {Val(save[t].response).cohort_definition_id : t \in Callers} = 4..(MaxCallers + 3)

(* The literal stands for the text: the lexer reads it as one string token  *)
(* that ends at its last character, with the text as its value.             *)
LiteralKeeps(lit, text) == WellFormed(lit) /\ LexString(lit).value = text

(* The date strings of a criterion that reach the SQL text, in order.       *)
DateStrings(c) ==
    (IF Truthy(c.start_date) THEN <<Val(c.start_date)>> ELSE <<>>)
    \o (IF Truthy(c.end_date) THEN <<Val(c.end_date)>> ELSE <<>>)

(* C19: every caller string written into SQL text as a quoted literal has   *)
(* its quotes doubled, so that the literal ends where the string ends: the  *)
(* name, the description and the SQL text of a save request, and the        *)
(* start_date and end_date of every criterion.                              *)
C19_QuotesDoubled ==
    /\ \A i \in DOMAIN sent :
          IsInsert(sent[i]) =>
              \E t \in Callers :
                  /\ ~IsNone(save[t].request)
                  /\ LET request == Val(save[t].request)
                         values == sent[i].values
                     IN  /\ LiteralKeeps(values.cohort_definition_name,
                                         request.cohort_definition_name)
                         /\ LiteralKeeps(values.cohort_definition_description,
                                         request.cohort_definition_description)
                         /\ LiteralKeeps(values.cohort_definition_syntax,
                                         request.cohort_definition_syntax)
    /\ Compiled =>
          \A c \in AllCriteria :
              c.criteria_type \in EventTypes =>
                  LET preds == _build_criteria_sql(c).preds
                      dates == DateStrings(c)
                  IN  /\ Len(preds) >= Len(dates)
                      /\ \A k \in DOMAIN dates :
                            preds[k].quoted /\ LiteralKeeps(preds[k].lit, dates[k])

-----------------------------------------------------------------------------
(* Properties of the db layer.                                              *)

Finished(t) == call[t].pc \in {"returned", "raised"}

Quiescent == \A t \in Callers : call[t].pc \in {"off", "idle", "returned", "raised"}

C23_NoSharedState ==
    [][/\ \A t, u \in Callers :
            t # u /\ call[t].connection # 0 =>
                call[t].connection # call[u].connection
       /\ \A t \in Callers :
            call'[t] # call[t] /\ process' # process =>
                \A u \in Callers \ {t} : ~InProgress(u)]_vars

(* C28: with SSL verification disabled, once no call is inside              *)
(* get_connection and every connection it opened is closed, the default     *)
(* HTTPS context factory, CURL_CA_BUNDLE and REQUESTS_CA_BUNDLE have the     *)
(* values they had when the process started, however the calls overlapped.  *)
C28_EnvironmentRestored ==
    /\ ~settings.databricks_verify_ssl
    /\ Quiescent
    /\ \A i \in DOMAIN connections : ~connections[i].open
    => process = at_start

-----------------------------------------------------------------------------
(* Properties of build_cohort among other clients of the warehouse.         *)

(* The persons of data state d that are in the fragment of every inclusion  *)
(* criterion and of no exclusion criterion, all evaluated on d.             *)
MembersOn(d) ==
    LET Subjects(criteria) == Range(EvalFragment(_build_criteria_sql(criteria), d))
    IN  {p \in {d.person[i].person_id : i \in DOMAIN d.person} :
            /\ \A k \in DOMAIN Inclusion : p \in Subjects(Inclusion[k])
            /\ \A k \in DOMAIN Exclusion : p \notin Subjects(Exclusion[k])}

(* C24: with the warehouse data changing between the steps of build_cohort, *)
(* the subjects it gets back are the inclusion/exclusion evaluation on the  *)
(* one data state the warehouse was in when the statement was executed,     *)
(* later changes do not touch them, and patient_count and the sample are    *)
(* taken from them.                                                         *)
C24_SingleSnapshot ==
    [][/\ pc' = "executed" /\ pc # "executed" =>
            Range(person_ids') = MembersOn(db)
       /\ pc \in {"executed", "returned"} => person_ids' = person_ids
       /\ pc' = "returned" =>
            /\ Val(result').patient_count = Cardinality(Range(person_ids'))
            /\ Range(Val(result').sample_patient_ids) \subseteq Range(person_ids')]_vars

(* After the statement was executed the data has changed: the subjects    *)
(* returned are not the evaluation on the tables as they are now.           *)
C24_Witness ==
    /\ pc = "returned"
    /\ Exclusion # <<>> /\ Inclusion # <<>>
    /\ Range(person_ids) # MembersOn(db)
    /\ \E d \in DataStates : Range(person_ids) = MembersOn(d)

-----------------------------------------------------------------------------
(* Properties of the routes.                                                *)

BuildAnswer == response["/cohorts/build"]
PreviewAnswer == response["/cohorts/preview-count"]

(* A statement build_cohort sent has failed.                                *)
StatementFailed == pc = "raised" /\ sql # None /\ sql # ValueError

(* C21: when the cohort statement or a demographics query fails, the        *)
(* failed statement - the last one sent, after the cohort statement and at  *)
(* most the gender query - was sent once, build_cohort raises the           *)
(* warehouse's error and returns no CohortResult, and the /cohorts/build    *)
(* route answers with an error whose detail is the message of that error.   *)
C21_FailurePropagates ==
    StatementFailed =>
        LET n == Len(sent)
        IN  /\ n \in 1..3
            /\ sent[1] = sql
            /\ \A i \in 1..(n - 1) : sent[i] # sent[n]
            /\ exception \in {Some(m) : m \in Failures \cup {SqlError}}
            /\ IsNone(result)
            /\ ~IsNone(BuildAnswer) =>
                    /\ Val(BuildAnswer).status_code >= 400
                    /\ Val(BuildAnswer).detail = Val(exception)

(* The age query, the third statement, failed and the route has answered.   *)
C21_Witness ==
    /\ StatementFailed
    /\ Len(sent) = 3
    /\ BuildAnswer = Some([status_code |-> 500, detail |-> "network error"])

(* C22: the count-only preview succeeds, and its count is the patient_count *)
(* build_cohort returns for the same definition on the same data.           *)
C22_PreviewEqualsBuild ==
    ~IsNone(PreviewAnswer) /\ pc = "returned" =>
        /\ Val(PreviewAnswer).status_code = 200
        /\ Val(PreviewAnswer).body.count = Val(result).patient_count

-----------------------------------------------------------------------------
(* Properties of the CORS configuration.                                    *)

(* pattern, in which "*" stands for any string and every other character    *)
(* for itself, matches text from its first to its last character.           *)
RECURSIVE Wildcard(_, _)
Wildcard(pattern, text) ==
    IF pattern = <<>> THEN text = <<>>
    ELSE IF Head(pattern) = "*"
    THEN \E k \in 0..Len(text) : Wildcard(Tail(pattern), SubSeq(text, k + 1, Len(text)))
    ELSE text # <<>> /\ Head(text) = Head(pattern) /\ Wildcard(Tail(pattern), Tail(text))

Entries == ConfiguredOrigins(settings.cors_origins)

Origin == Val(cors.origin)

(* C25: for every configured origin list, an origin is allowed exactly when *)
(* it equals a configured entry without "*" or matches, from end to end, a  *)
(* configured entry with "*" in which "*" is any string and every other     *)
(* character is literal; no entry with "*" is in the exact-origin list; the *)
(* origin with the wildcard entry's suffix in the middle and the origins    *)
(* of another scheme or port in test_cors_regex are not allowed.            *)
C25_OriginAllowed ==
    ~IsNone(cors.allowed) =>
        /\ Val(cors.allowed) <=>
               \E i \in DOMAIN Entries :
                   \/ "*" \notin Range(Entries[i]) /\ Origin = Entries[i]
                   \/ "*" \in Range(Entries[i]) /\ Wildcard(Entries[i], Origin)
        /\ \A i \in DOMAIN cors_origins_list(settings.cors_origins) :
               "*" \notin Range(cors_origins_list(settings.cors_origins)[i])
        /\ settings.cors_origins = test_cors_origins
           /\ (\E k \in 6..9 : Origin = test_urls[k])
           => ~Val(cors.allowed)

(* The origin with the suffix in the middle has been decided on, against    *)
(* the exact origin and the wildcard origin of the test.                    *)
C25_Witness ==
    /\ settings.cors_origins = test_cors_origins
    /\ Origin = test_urls[7]
    /\ ~IsNone(cors.allowed)

-----------------------------------------------------------------------------
(* Properties of the age statistics.                                        *)

(* The buckets of a summary that hold an age.                               *)
AgedBuckets(summary) ==
    SelectSeq(summary.age_distribution, LAMBDA row : ~IsNone(row.age))

(* C26: in the demographics summary, age_stats.mean is the mean of the      *)
(* single-year age buckets weighted by their counts, age_stats.min and      *)
(* age_stats.max are the smallest and the largest bucket age, and all three *)
(* are 0 when no bucket holds an age.                                       *)
C26_WeightedMean ==
    (Returned /\ ~IsNone(Val(result).demographics)) =>
        LET summary == Val(Val(result).demographics)
            buckets == AgedBuckets(summary)
            weighted == SumSeq([k \in DOMAIN buckets |->
                                   Val(buckets[k].age) * buckets[k].count])
            subjects == SumSeq([k \in DOMAIN buckets |-> buckets[k].count])
            stats == summary.age_stats
        IN  IF buckets = <<>>
            THEN stats.mean[1] = 0 /\ stats.min = 0 /\ stats.max = 0
            ELSE /\ stats.mean[1] * subjects = weighted * stats.mean[2]
                 /\ stats.min = Min({Val(buckets[k].age) : k \in DOMAIN buckets})
                 /\ stats.max = Max({Val(buckets[k].age) : k \in DOMAIN buckets})

-----------------------------------------------------------------------------
(* Properties of concurrent saves.                                          *)

(* C27: under any interleaving of concurrent save_cohort_definition calls,  *)
(* no two rows of the cohort_definition table share a                       *)
(* cohort_definition_id and no two calls that returned have returned the    *)
(* same ID.                                                                 *)
C27_UniqueIds ==
    /\ \A i, j \in DOMAIN db.cohort_definition :
          i # j => db.cohort_definition[i].cohort_definition_id
                   # db.cohort_definition[j].cohort_definition_id
    /\ \A t, u \in Callers :
          (t # u /\ save[t].pc = "returned" /\ save[u].pc = "returned") =>
              Val(save[t].response).cohort_definition_id
              # Val(save[u].response).cohort_definition_id

-----------------------------------------------------------------------------
(* Properties of the age criterion.                                         *)

AgeCriteriaOf ==
    {c \in Range(Inclusion) \cup Range(Exclusion) : c.criteria_type = "age"}

(* The operators _build_age_sql has a comparison for.                       *)
AgeOperators == {"equals", "greater_than", "less_than", "between"}

(* C29: an Age criterion whose operator has no comparison (not_equals, in,  *)
(* not_in or absent) is rejected, so a definition that has compiled holds   *)
(* none; and every age fragment of a compiled statement compares the age    *)
(* with the value or the range of its criterion.                            *)
C29_AgeOperatorChecked ==
    (pc \in {"compiled", "executed", "returned"}) =>
        /\ \A c \in AgeCriteriaOf :
              ~IsNone(c.operator) /\ Val(c.operator) \in AgeOperators
        /\ \A i \in DOMAIN sql.ctes :
              sql.ctes[i].body.kind = "age" =>
                  /\ sql.ctes[i].body.cmp \in {"=", ">", "<", "BETWEEN"}
                  /\ \E c \in AgeCriteriaOf :
                        sql.ctes[i].body.args \in
                            {<<c.value>>, <<c.value_min, c.value_max>>}

-----------------------------------------------------------------------------
(* Properties of the is_exclusion flag.                                     *)

====
